---- MODULE Spec2Model ----
(***************************************************************************)
(* Budgie container lifecycle: the ContainerManager, the containerd        *)
(* runtime adapter, the RestartMonitor and the HealthCheckMonitor.         *)
(*                                                                         *)
(* Granularity.  Create, Start, Stop and Remove hold m.mu from entry to    *)
(* return (runtime call and saveState included), so each is one action.    *)
(* The monitors take the lock only around single assignments, so each of   *)
(* their lock-free stretches is an action of its own:                      *)
(*   restart monitor  List | shouldRestart+backoff | RestartCount++ |      *)
(*                    manager.Start                                        *)
(*   health monitor   launch probe | recordHealthCheck (+ State = failed)  *)
(*                    | saveState marshal | saveState write                *)
(* Container objects are heap cells: m.containers maps an id to a pointer  *)
(* and the monitors keep pointers across Remove and a later Create.        *)
(* Time is in whole seconds.                                               *)
(***************************************************************************)
EXTENDS Integers, Sequences, FiniteSets, TLC

\* ---------------------------------------------------------------- bounds
NumIds == 1
MaxObjs == 1
MaxTime == 1
MaxRestartCount == 2
MaxInflight == 1
MaxFaults == 1
MaxRetries == 3
MaxProbeTime == 4
NumPaths == 2
MaxSize == 1
MaxMtime == 1
MaxPasses == 2
IdLen == 2
MaxDiscovered == 2
MaxEntries == 2
MaxBackends == 2
MaxReqs == 2
MaxRequests == 3
MaxDeps == 2
MaxPolls == 2
MaxKeys == 2
MaxAddr == 16
MaxCount == 127
MaxOverlap == 2
MaxSaves == 5
MaxChunks == 2
MaxClock == 6

\* ------------------------------------------------------- program constants
MaxBackoff == 300
DefaultRetries == 3
DefaultInterval == 30
MaxHealthLog == 5
ChecksumBlock == 1024

Ids == 1..NumIds
Ptrs == 1..MaxObjs
ZeroTime == -1

StateCreating == "creating"
StateCreated == "created"
StateRunning == "running"
StateStopped == "stopped"
StateFailed == "failed"

HealthStatusHealthy == "healthy"
HealthStatusUnhealthy == "unhealthy"
HealthStatusStarting == "starting"

\* ------------------------------------------------------ container inputs
\* A nil *RestartPolicy and a policy with an unknown name both end in
\* "return false" in shouldRestart; the nil pointer is the name "<nil>".
NilPolicy == [Name |-> "<nil>", MaximumRetryCount |-> 0]

\* A nil *HealthCheck and an empty Path are skipped alike by
\* checkAllContainers; the nil pointer is the empty Path.
NilHealth == [Path |-> "", Interval |-> 0, Retries |-> 0]

\* What the caller of Create passes: restart policy, health check, and the
\* host port of the first port mapping with HostPort > 0 (0: there is none).
Probed == [Path |-> "/health", Interval |-> 1, Retries |-> 1]

Configs ==
  { << [Name |-> "always", MaximumRetryCount |-> 0], Probed, 8080 >>,
    << [Name |-> "on-failure", MaximumRetryCount |-> 2], Probed, 8080 >>,
    << [Name |-> "unless-stopped", MaximumRetryCount |-> 0], NilHealth, 8080 >>,
    << NilPolicy, Probed, 0 >> }

NewContainer(id, pol, hc, port) ==
  [ ID |-> id, State |-> StateCreating, RestartCount |-> 0,
    StartedAt |-> ZeroTime, ExitedAt |-> ZeroTime,
    RestartPolicy |-> pol, Health |-> hc, HostPort |-> port ]

\* ------------------------------------------------------------- variables
VARIABLES
  heap,        \* the types.Container objects allocated so far; index = pointer
  containers,  \* m.containers: id -> pointer, 0 when the id has no entry
  disk,        \* state.json
  rt,          \* containerd: per id, the container and its tasks
  now,         \* wall clock, seconds
  rm,          \* the restart monitor goroutine
  health,      \* hm.health: id -> *ContainerHealth
  probes,      \* runHealthCheck goroutines waiting for the HTTP response
  hm,          \* per id: the goroutine inside handleUnhealthy (holds health.mu)
  last,        \* outcome of the latest manager call
  writeFailed, \* the latest os.WriteFile of state.json failed
  monStarts,   \* per pointer: Starts by the restart monitor that succeeded
  faults,      \* failures injected so far (runtime errors, failed writes)
  tree,        \* per node: the files under the volume root
  ep,          \* per node: its end of the sync connection
  inbox,       \* per node: messages sent to it and not yet read
  volumePaths, \* Server.volumePaths: the registered container ids
  pass,        \* sync passes started
  join,        \* the chirp join (joinContainer)
  disc,        \* DiscoverContainers: the query and the records collected
  lb,          \* the ContainerProxy: its type, its backends and their pool
  reqs,        \* the requests inside the GetProxy handler
  graph,       \* the DependencyGraph and the latest GetStartOrder
  wait,        \* the WaitForDependencies call
  sm,          \* the SecretManager of the running process
  sdir,        \* the secrets data directory: .secrets.key and secrets.json
  nm,          \* the NetworkManager, networks.json and the addresses returned
  bo,          \* the latest calculateBackoff call: its argument and result
  ticked,      \* the second of the health monitor's latest tick
  srv,         \* Server.volumePaths with its paths, and the latest connection
  sf,          \* state.json as a saving manager and a loading one share it
  rd           \* one container as Start and Stop write it and a reader reads it

vars == << heap, containers, disk, rt, now, rm, health, probes, hm, last,
           writeFailed, monStarts, faults, tree, ep, inbox, volumePaths,
           pass, join, disc, lb, reqs, graph, wait, sm, sdir, nm, bo,
           ticked, srv, sf, rd >>

\* The variables of volume sync and chirp; the container lifecycle leaves
\* them alone.
syncVars == << tree, ep, inbox, volumePaths, pass, join >>

\* The variables of discovery, the proxy, the dependency resolver and the
\* secret manager; the lifecycle and volume sync leave them alone.
svcVars == << disc, lb, reqs, graph, wait, sm, sdir, nm, bo, ticked,
              srv, sf, rd >>

\* The variables of the sections after the network manager and the 64-bit
\* backoff, and those with the two.
extVars == << ticked, srv, sf, rd >>
netVars == << nm, bo, extVars >>

\* ------------------------------------------------------------ manager view
Known(id) == containers[id] # 0
Ctr(id) == heap[containers[id]]

\* The list saveState marshals: every container of the map, all fields.
SnapshotList ==
  { heap[containers[id]] : id \in { i \in Ids : containers[i] # 0 } }

NoFile == [valid |-> TRUE, list |-> {}]
Partial == [valid |-> FALSE, list |-> {}]

\* ----------------------------------------------------------------- runtime
NoTask == << >>
NewRt == [exists |-> FALSE, tasks |-> NoTask]

RtFaultsCreate == {"none", "pull", "newcontainer"}
RtFaultsStart == {"none", "load", "newtask", "taskstart"}
RtFaultsStop == {"none", "load", "wait", "delete"}
RtFaultsDelete == {"none", "load", "taskdelete", "delete"}

\* containerdRuntime.Create: the new runtime state and whether it failed.
RtCreate(id, fault) ==
  IF fault # "none" \/ rt[id].exists
  THEN [err |-> TRUE, rt |-> rt]
  ELSE [err |-> FALSE, rt |-> [rt EXCEPT ![id].exists = TRUE]]

\* A Start that goes on after NewTask reported an existing task.
NewTaskRefusedMut(id) == FALSE

\* container.NewTask: containerd refuses a second task for a container.
NewTaskRefused(id) == Len(rt[id].tasks) > 0

\* containerdRuntime.Start.
RtStart(id, fault) ==
  IF fault = "load" \/ ~rt[id].exists THEN [err |-> TRUE, rt |-> rt]
  ELSE IF fault = "newtask" \/ NewTaskRefused(id) THEN [err |-> TRUE, rt |-> rt]
  ELSE IF fault = "taskstart"
  THEN [err |-> TRUE,
        rt |-> [rt EXCEPT ![id].tasks =
                  Append(@, [status |-> "created", code |-> 0, own |-> FALSE,
                             watcher |-> "none"])]]
  ELSE [err |-> FALSE,
        rt |-> [rt EXCEPT ![id].tasks =
                  Append(@, [status |-> "running", code |-> 0, own |-> FALSE,
                             watcher |-> "waiting"])]]

\* The task after SIGTERM/SIGKILL and the wait: exited, unless it had
\* already exited on its own.
Killed(t) ==
  IF t.status = "exited" THEN t
  ELSE [t EXCEPT !.status = "exited", !.code = 137, !.own = FALSE]

\* containerdRuntime.Stop.
RtStop(id, fault) ==
  IF fault = "load" \/ ~rt[id].exists THEN [err |-> TRUE, rt |-> rt]
  ELSE IF rt[id].tasks = NoTask THEN [err |-> FALSE, rt |-> rt]
  ELSE IF fault = "wait" THEN [err |-> TRUE, rt |-> rt]
  ELSE IF fault = "delete"
  THEN [err |-> TRUE,
        rt |-> [rt EXCEPT ![id].tasks = << Killed(Head(@)) >> \o Tail(@)]]
  ELSE [err |-> FALSE, rt |-> [rt EXCEPT ![id].tasks = Tail(@)]]

\* containerdRuntime.Delete.
RtDelete(id, fault) ==
  IF fault = "load" \/ ~rt[id].exists THEN [err |-> TRUE, rt |-> rt]
  ELSE IF rt[id].tasks # NoTask /\ fault = "taskdelete"
  THEN [err |-> TRUE, rt |-> rt]
  ELSE IF fault = "delete"
  THEN [err |-> TRUE, rt |-> [rt EXCEPT ![id].tasks = NoTask]]
  ELSE [err |-> FALSE, rt |-> [rt EXCEPT ![id] = NewRt]]

\* ------------------------------------------------------------- persistence
\* ContainerManager.saveState on the memory given by h and c: the file after
\* the call.  A write that fails leaves the old file or a truncated one.
SaveOutcomes == {"ok", "unchanged", "partial"}

Saved(list, outcome) ==
  CASE outcome = "ok" -> [valid |-> TRUE, list |-> list]
    [] outcome = "unchanged" -> disk
    [] OTHER -> Partial

ListOf(h, c) == { h[c[id]] : id \in { i \in Ids : c[i] # 0 } }

\* What a caller of the manager observes of a call: the error returned
\* ("nil": none), whether the runtime was invoked, the fault the runtime call
\* met, whether it returned an error, and the outcome of saveState.  n flips
\* at every call.
Call(op, id, by, err, rtCalled, rtErr, fault, save) ==
  [op |-> op, id |-> id, by |-> by, err |-> err, rtCalled |-> rtCalled,
   rtErr |-> rtErr, fault |-> fault, save |-> save, n |-> 1 - last.n]

\* A call that returns the error of saveState.
AfterSaveMut(save) == IF save = "ok" THEN "nil" ELSE "persist"

\* The error a call returns after saveState: a failed save is only logged.
AfterSave(save) == "nil"

\* The three ways a call ends: before the runtime call, on the runtime
\* call's error, and after saveState.
Rejected(op, id, by, err) ==
  Call(op, id, by, err, FALSE, FALSE, "none", "none")
RuntimeFailed(op, id, by, fault) ==
  Call(op, id, by, "runtime", TRUE, TRUE, fault, "none")
Returned(op, id, by, fault, save) ==
  Call(op, id, by, AfterSave(save), TRUE, FALSE, fault, save)

\* ----------------------------------------------------------------- manager
\* A call that returns before the runtime call meets no fault, and a call
\* whose runtime call fails never reaches saveState: the unused choices are
\* pinned so that each outcome is generated once.
NoFault(fault, save) == fault = "none" /\ save = "ok"
Injected(fault, save) == IF fault # "none" \/ save # "ok" THEN 1 ELSE 0
Budget(fault, save) == faults + Injected(fault, save) <= MaxFaults

\* ContainerManager.Create
Create(id, pol, hc, port, fault, save) ==
  /\ Budget(fault, save)
  /\ faults' = faults + Injected(fault, save)
  /\ UNCHANGED << now, rm, health, probes, hm >>
  /\ IF Known(id)
     THEN /\ NoFault(fault, save)
          /\ last' = Rejected("Create", id, "user", "exists")
          /\ UNCHANGED << heap, containers, disk, rt, writeFailed, monStarts >>
     ELSE LET r == RtCreate(id, fault) IN
          IF r.err
          THEN /\ save = "ok"
               /\ last' = RuntimeFailed("Create", id, "user", fault)
               /\ rt' = r.rt
               /\ UNCHANGED << heap, containers, disk, writeFailed, monStarts >>
          ELSE LET ctr == [NewContainer(id, pol, hc, port)
                             EXCEPT !.State = StateCreated]
                   h == Append(heap, ctr)
                   c == [containers EXCEPT ![id] = Len(h)]
               IN /\ Len(heap) < MaxObjs
                  /\ heap' = h
                  /\ containers' = c
                  /\ rt' = r.rt
                  /\ monStarts' = Append(monStarts, 0)
                  /\ disk' = Saved(ListOf(h, c), save)
                  /\ writeFailed' = (save # "ok")
                  /\ last' = Returned("Create", id, "user", fault, save)

\* Start without the test of the container's state.
StartableAnyMut(s) == TRUE

\* Start that also accepts a failed container.
StartableMut(s) == s = StateCreated \/ s = StateStopped \/ s = StateFailed

\* The states ContainerManager.Start accepts.
Startable(s) == s = StateCreated \/ s = StateStopped

\* ContainerManager.Start, called by the user or by restartContainer
StartCall(id, by, fault, save) ==
  /\ Budget(fault, save)
  /\ faults' = faults + Injected(fault, save)
  /\ UNCHANGED << now, health, probes, hm >>
  /\ IF ~Known(id)
     THEN /\ NoFault(fault, save)
          /\ last' = Rejected("Start", id, by, "notfound")
          /\ UNCHANGED << heap, containers, disk, rt, writeFailed, monStarts >>
     ELSE IF ~Startable(Ctr(id).State)
     THEN /\ NoFault(fault, save)
          /\ last' = Rejected("Start", id, by, "state")
          /\ UNCHANGED << heap, containers, disk, rt, writeFailed, monStarts >>
     ELSE LET r == RtStart(id, fault) IN
          IF r.err
          THEN /\ save = "ok"
               /\ last' = RuntimeFailed("Start", id, by, fault)
               /\ rt' = r.rt
               /\ UNCHANGED << heap, containers, disk, writeFailed, monStarts >>
          ELSE LET p == containers[id]
                   h == [heap EXCEPT ![p].State = StateRunning,
                                     ![p].StartedAt = now]
               IN /\ heap' = h
                  /\ rt' = r.rt
                  /\ monStarts' = IF by = "monitor"
                                  THEN [monStarts EXCEPT ![p] = @ + 1]
                                  ELSE monStarts
                  /\ disk' = Saved(ListOf(h, containers), save)
                  /\ writeFailed' = (save # "ok")
                  /\ last' = Returned("Start", id, by, fault, save)
                  /\ UNCHANGED containers

\* The states ContainerManager.Stop accepts.
Stoppable(s) == s = StateRunning

\* Stop that marks the container stopped before it looks at the runtime's
\* error.
StopMut(id, fault, save) ==
  /\ Budget(fault, save)
  /\ faults' = faults + Injected(fault, save)
  /\ UNCHANGED << now, rm, health, probes, hm, monStarts >>
  /\ IF ~Known(id)
     THEN /\ NoFault(fault, save)
          /\ last' = Rejected("Stop", id, "user", "notfound")
          /\ UNCHANGED << heap, containers, disk, rt, writeFailed >>
     ELSE IF ~Stoppable(Ctr(id).State)
     THEN /\ NoFault(fault, save)
          /\ last' = Rejected("Stop", id, "user", "state")
          /\ UNCHANGED << heap, containers, disk, rt, writeFailed >>
     ELSE LET r == RtStop(id, fault) IN
          IF r.err
          THEN /\ save = "ok"
               /\ last' = RuntimeFailed("Stop", id, "user", fault)
               /\ rt' = r.rt
               /\ heap' = [heap EXCEPT ![containers[id]].State = StateStopped]
               /\ UNCHANGED << containers, disk, writeFailed >>
          ELSE LET p == containers[id]
                   h == [heap EXCEPT ![p].State = StateStopped,
                                     ![p].ExitedAt = now]
               IN /\ heap' = h
                  /\ rt' = r.rt
                  /\ disk' = Saved(ListOf(h, containers), save)
                  /\ writeFailed' = (save # "ok")
                  /\ last' = Returned("Stop", id, "user", fault, save)
                  /\ UNCHANGED containers

\* ContainerManager.Stop
Stop(id, fault, save) ==
  /\ Budget(fault, save)
  /\ faults' = faults + Injected(fault, save)
  /\ UNCHANGED << now, rm, health, probes, hm, monStarts >>
  /\ IF ~Known(id)
     THEN /\ NoFault(fault, save)
          /\ last' = Rejected("Stop", id, "user", "notfound")
          /\ UNCHANGED << heap, containers, disk, rt, writeFailed >>
     ELSE IF ~Stoppable(Ctr(id).State)
     THEN /\ NoFault(fault, save)
          /\ last' = Rejected("Stop", id, "user", "state")
          /\ UNCHANGED << heap, containers, disk, rt, writeFailed >>
     ELSE LET r == RtStop(id, fault) IN
          IF r.err
          THEN /\ save = "ok"
               /\ last' = RuntimeFailed("Stop", id, "user", fault)
               /\ rt' = r.rt
               /\ UNCHANGED << heap, containers, disk, writeFailed >>
          ELSE LET p == containers[id]
                   h == [heap EXCEPT ![p].State = StateStopped,
                                     ![p].ExitedAt = now]
               IN /\ heap' = h
                  /\ rt' = r.rt
                  /\ disk' = Saved(ListOf(h, containers), save)
                  /\ writeFailed' = (save # "ok")
                  /\ last' = Returned("Stop", id, "user", fault, save)
                  /\ UNCHANGED containers

\* The states ContainerManager.Remove accepts.
Removable(s) == s # StateRunning

\* ContainerManager.Remove
Remove(id, fault, save) ==
  /\ Budget(fault, save)
  /\ faults' = faults + Injected(fault, save)
  /\ UNCHANGED << now, rm, health, probes, hm, heap, monStarts >>
  /\ IF ~Known(id)
     THEN /\ NoFault(fault, save)
          /\ last' = Rejected("Remove", id, "user", "notfound")
          /\ UNCHANGED << containers, disk, rt, writeFailed >>
     ELSE IF ~Removable(Ctr(id).State)
     THEN /\ NoFault(fault, save)
          /\ last' = Rejected("Remove", id, "user", "state")
          /\ UNCHANGED << containers, disk, rt, writeFailed >>
     ELSE LET r == RtDelete(id, fault) IN
          IF r.err
          THEN /\ save = "ok"
               /\ last' = RuntimeFailed("Remove", id, "user", fault)
               /\ rt' = r.rt
               /\ UNCHANGED << containers, disk, writeFailed >>
          ELSE LET c == [containers EXCEPT ![id] = 0]
               IN /\ containers' = c
                  /\ rt' = r.rt
                  /\ disk' = Saved(ListOf(heap, c), save)
                  /\ writeFailed' = (save # "ok")
                  /\ last' = Returned("Remove", id, "user", fault, save)

UserCreate ==
  /\ \E id \in Ids, cfg \in Configs, fault \in RtFaultsCreate,
        save \in SaveOutcomes :
       Create(id, cfg[1], cfg[2], cfg[3], fault, save)
  /\ UNCHANGED << syncVars, svcVars >>

UserStart ==
  /\ \E id \in Ids, fault \in RtFaultsStart, save \in SaveOutcomes :
       StartCall(id, "user", fault, save)
  /\ UNCHANGED << rm, syncVars, svcVars >>

UserStop ==
  /\ \E id \in Ids, fault \in RtFaultsStop, save \in SaveOutcomes :
       Stop(id, fault, save)
  /\ UNCHANGED << syncVars, svcVars >>

UserRemove ==
  /\ \E id \in Ids, fault \in RtFaultsDelete, save \in SaveOutcomes :
       Remove(id, fault, save)
  /\ UNCHANGED << syncVars, svcVars >>

\* ---------------------------------------------------------- restart monitor
RmIdle == [pc |-> "idle", list |-> {}, cur |-> 0]

\* RestartMonitor.calculateBackoff, in seconds (restart counts of the model
\* stay far below the range where the shift leaves 64 bits).
calculateBackoff(restartCount) ==
  IF 2 ^ restartCount > MaxBackoff THEN MaxBackoff ELSE 2 ^ restartCount

\* time.Since(t) < d; the zero time.Time lies centuries back.
SinceLess(t, d) == t # ZeroTime /\ now - t < d

\* RestartMonitor.shouldRestart
shouldRestart(ctr) ==
  IF ctr.State # StateStopped /\ ctr.State # StateFailed THEN FALSE
  ELSE CASE ctr.RestartPolicy.Name = "no" -> FALSE
         [] ctr.RestartPolicy.Name = "always" -> TRUE
         [] ctr.RestartPolicy.Name = "on-failure" ->
              IF /\ ctr.RestartPolicy.MaximumRetryCount > 0
                 /\ ctr.RestartCount >= ctr.RestartPolicy.MaximumRetryCount
              THEN FALSE
              ELSE ctr.State = StateFailed
         [] ctr.RestartPolicy.Name = "unless-stopped" -> TRUE
         [] OTHER -> FALSE

\* The ticker fires: checkContainers takes the List() snapshot.
RmTick ==
  /\ rm.pc = "idle"
  /\ rm' = [pc |-> "scan", cur |-> 0,
            list |-> { containers[id] : id \in { i \in Ids : containers[i] # 0 } }]
  /\ UNCHANGED << heap, containers, disk, rt, now, health, probes, hm, last,
                  writeFailed, monStarts, faults,
                  syncVars, svcVars >>

\* One iteration of the loop of checkContainers: shouldRestart, then the
\* backoff test that opens restartContainer.  The loop ends on an empty list.
RmScan ==
  /\ rm.pc = "scan"
  /\ \/ /\ rm.list = {}
        /\ rm' = RmIdle
     \/ \E p \in rm.list :
          IF shouldRestart(heap[p])
             /\ ~SinceLess(heap[p].ExitedAt, calculateBackoff(heap[p].RestartCount))
          THEN rm' = [pc |-> "incr", cur |-> p, list |-> rm.list \ {p}]
          ELSE rm' = [rm EXCEPT !.list = @ \ {p}]
  /\ UNCHANGED << heap, containers, disk, rt, now, health, probes, hm, last,
                  writeFailed, monStarts, faults,
                  syncVars, svcVars >>

\* restartContainer: ctr.RestartCount++ under the manager's lock.
RmIncr ==
  /\ rm.pc = "incr"
  /\ heap[rm.cur].RestartCount < MaxRestartCount
  /\ heap' = [heap EXCEPT ![rm.cur].RestartCount = @ + 1]
  /\ rm' = [rm EXCEPT !.pc = "start"]
  /\ UNCHANGED << containers, disk, rt, now, health, probes, hm, last,
                  writeFailed, monStarts, faults,
                  syncVars, svcVars >>

\* restartContainer: rm.manager.Start(ctx, ctr.ID); its error is only logged.
RmStart ==
  /\ rm.pc = "start"
  /\ \E fault \in RtFaultsStart, save \in SaveOutcomes :
       StartCall(heap[rm.cur].ID, "monitor", fault, save)
  /\ rm' = [rm EXCEPT !.pc = "scan", !.cur = 0]
  /\ UNCHANGED << syncVars, svcVars >>

\* ----------------------------------------------------------- health monitor
NoHealthEntry == [exists |-> FALSE, Status |-> HealthStatusStarting,
                  FailingStreak |-> 0, Log |-> << >>]
HmIdle == [pc |-> "idle", ptr |-> 0, snap |-> {}]

\* HealthCheckMonitor.getOrCreateHealth
getOrCreateHealth(id) ==
  IF health[id].exists THEN health[id]
  ELSE [exists |-> TRUE, Status |-> HealthStatusStarting,
        FailingStreak |-> 0, Log |-> << >>]

\* HealthCheckMonitor.shouldRunHealthCheck
shouldRunHealthCheck(ctr, h) ==
  IF Len(h.Log) = 0 THEN TRUE
  ELSE LET lastCheck == h.Log[Len(h.Log)]
           interval == IF ctr.Health.Interval = 0 THEN DefaultInterval
                       ELSE ctr.Health.Interval
       IN now - lastCheck.End >= interval

\* checkAllContainers, one container of the list: a running container with a
\* health check gets its health entry and, when a check is due, a probe
\* goroutine, max bounding the goroutines of one container.  (A pointer a
\* stale list still holds after Remove is never running, so ranging over the
\* live map launches the same probes.)
HmLaunch(id, max) ==
  /\ Known(id)
  /\ Ctr(id).Health.Path # ""
  /\ Ctr(id).State = StateRunning
  /\ hm[id].pc = "idle"
  /\ LET h == getOrCreateHealth(id)
         p == containers[id]
     IN /\ health' = [health EXCEPT ![id] = h]
        /\ IF shouldRunHealthCheck(Ctr(id), h)
           THEN /\ probes[p] < max
                /\ probes' = [probes EXCEPT ![p] = @ + 1]
           ELSE UNCHANGED probes

HmCheck ==
  \E id \in Ids :
    /\ HmLaunch(id, MaxInflight)
    /\ UNCHANGED << heap, containers, disk, rt, now, rm, hm, last,
                    writeFailed, monStarts, faults,
                    syncVars, svcVars >>

\* runHealthCheck without an exposed host port: returns before any request.
ProbeSkip ==
  \E p \in DOMAIN heap :
    /\ probes[p] > 0
    /\ heap[p].HostPort = 0
    /\ probes' = [probes EXCEPT ![p] = @ - 1]
    /\ UNCHANGED << heap, containers, disk, rt, now, rm, health, hm, last,
                    writeFailed, monStarts, faults,
                    syncVars, svcVars >>

Retries(ctr) == IF ctr.Health.Retries = 0 THEN DefaultRetries
                ELSE ctr.Health.Retries

\* The Log after append, trimmed to the last five results.
AppendLog(log, e) ==
  IF Len(log) + 1 > MaxHealthLog THEN Tail(Append(log, e)) ELSE Append(log, e)

\* recordHealthCheck that waits for one failure more than retries.
UnhealthyMut(streak, retries) == streak > retries

\* The streak at which recordHealthCheck calls handleUnhealthy.
Unhealthy(streak, retries) == streak >= retries

\* What handleUnhealthy writes into ctr.State.
MarkUnhealthy(state) == StateFailed

\* runHealthCheck gets its answer and calls recordHealthCheck (health.mu is
\* held to its end); on the retries-th failure in a row recordHealthCheck
\* calls handleUnhealthy, whose first step sets ctr.State under m.mu.
ProbeDone ==
  \E p \in DOMAIN heap, exitCode \in {0, 1} :
    LET ctr == heap[p]
        id == ctr.ID
        h == health[id]
        log == AppendLog(h.Log, [End |-> now, ExitCode |-> exitCode])
    IN /\ probes[p] > 0
       /\ ctr.HostPort > 0
       /\ hm[id].pc = "idle"
       /\ probes' = [probes EXCEPT ![p] = @ - 1]
       /\ IF exitCode = 0
          THEN /\ health' = [health EXCEPT ![id] =
                              [h EXCEPT !.Log = log, !.FailingStreak = 0,
                                        !.Status = HealthStatusHealthy]]
               /\ UNCHANGED << heap, hm >>
          ELSE IF Unhealthy(h.FailingStreak + 1, Retries(ctr))
          THEN /\ health' = [health EXCEPT ![id] =
                              [h EXCEPT !.Log = log,
                                        !.FailingStreak = @ + 1,
                                        !.Status = HealthStatusUnhealthy]]
               /\ heap' = [heap EXCEPT ![p].State = MarkUnhealthy(@)]
               /\ hm' = [hm EXCEPT ![id] = [pc |-> "marked", ptr |-> p,
                                            snap |-> {}]]
          ELSE /\ health' = [health EXCEPT ![id] =
                              [h EXCEPT !.Log = log,
                                        !.FailingStreak = @ + 1]]
               /\ UNCHANGED << heap, hm >>
       /\ UNCHANGED << containers, disk, rt, now, rm, last, writeFailed,
                       monStarts, faults,
                       syncVars, svcVars >>

\* handleUnhealthy: saveState without the lock, first half: list and marshal.
HmMarshal ==
  \E id \in Ids :
    /\ hm[id].pc = "marked"
    /\ hm' = [hm EXCEPT ![id].pc = "snapped", ![id].snap = SnapshotList]
    /\ UNCHANGED << heap, containers, disk, rt, now, rm, health, probes,
                    last, writeFailed, monStarts, faults,
                    syncVars, svcVars >>

\* handleUnhealthy: saveState, second half: os.WriteFile; recordHealthCheck
\* returns and releases health.mu.
HmWrite ==
  \E id \in Ids, save \in SaveOutcomes :
    /\ hm[id].pc = "snapped"
    /\ Budget("none", save)
    /\ faults' = faults + Injected("none", save)
    /\ disk' = Saved(hm[id].snap, save)
    /\ writeFailed' = (save # "ok")
    /\ hm' = [hm EXCEPT ![id] = HmIdle]
    /\ UNCHANGED << heap, containers, rt, now, rm, health, probes, last,
                    monStarts,
                    syncVars, svcVars >>

\* ------------------------------------------------------------- environment
ExitCodes == {0, 1}

\* The task's process ends by itself.
TaskExit ==
  \E id \in Ids, code \in ExitCodes :
    /\ rt[id].tasks # NoTask
    /\ Head(rt[id].tasks).status = "running"
    /\ rt' = [rt EXCEPT ![id].tasks =
                << [Head(@) EXCEPT !.status = "exited", !.code = code,
                                   !.own = TRUE] >> \o Tail(@)]
    /\ UNCHANGED << heap, containers, disk, now, rm, health, probes, hm,
                    last, writeFailed, monStarts, faults,
                    syncVars, svcVars >>

\* What the goroutine started by containerdRuntime.Start does with the exit
\* status it receives: the new State of the container.
WatcherState(state, code) == state

\* The exit watcher of containerdRuntime.Start receives the exit status.
ExitWatcher ==
  \E id \in Ids :
    /\ rt[id].tasks # NoTask
    /\ Head(rt[id].tasks).status = "exited"
    /\ Head(rt[id].tasks).watcher = "waiting"
    /\ rt' = [rt EXCEPT ![id].tasks =
                << [Head(@) EXCEPT !.watcher = "logged"] >> \o Tail(@)]
    /\ heap' = IF Known(id)
               THEN [heap EXCEPT ![containers[id]].State =
                       WatcherState(@, Head(rt[id].tasks).code)]
               ELSE heap
    /\ UNCHANGED << containers, disk, now, rm, health, probes, hm, last,
                    writeFailed, monStarts, faults,
                    syncVars, svcVars >>

Tick ==
  /\ now < MaxTime
  /\ now' = now + 1
  /\ UNCHANGED << heap, containers, disk, rt, rm, health, probes, hm, last,
                  writeFailed, monStarts, faults,
                  syncVars, svcVars >>

\* ------------------------------------------------------------ volume sync
\* A volume root is a set of regular files, each with its bytes and its
\* modification time; filepath.Walk visits them in path order.
Nodes == {"client", "server"}
Peer(n) == IF n = "client" THEN "server" ELSE "client"

Paths == 1..NumPaths
Absent == [exists |-> FALSE, data |-> << >>, mtime |-> 0]
FileOf(data, mtime) == [exists |-> TRUE, data |-> data, mtime |-> mtime]
EmptyTree == [p \in Paths |-> Absent]

\* The trees of the model: per path no file, or a file of up to MaxSize
\* bytes with a modification time of up to MaxMtime.
Trees ==
  LET Contents == UNION { [1..n -> {0, 1}] : n \in 0..MaxSize }
      Files == { FileOf(d, m) : d \in Contents, m \in 0..MaxMtime }
  IN [Paths -> Files \cup {Absent}]

\* quickChecksum: the first block of the file followed by what the next read
\* returns, which is the last block after the seek of a file longer than one
\* block and nothing at the end of a shorter file.
quickChecksum(data) ==
  LET size == Len(data)
      firstBlock == SubSeq(data, 1, IF size < ChecksumBlock THEN size
                                    ELSE ChecksumBlock)
      lastBlock == IF size > ChecksumBlock
                   THEN SubSeq(data, size - ChecksumBlock + 1, size)
                   ELSE SubSeq(data, Len(firstBlock) + 1, size)
  IN firstBlock \o lastBlock

FileSignature(p, f) ==
  [Path |-> p, Size |-> Len(f.data), ModTime |-> f.mtime,
   Checksum |-> quickChecksum(f.data)]

\* SyncManager.collectSignatures: the files from path p on, in walk order.
RECURSIVE collectSignatures(_, _)
collectSignatures(t, p) ==
  IF p > NumPaths THEN << >>
  ELSE (IF t[p].exists THEN << FileSignature(p, t[p]) >> ELSE << >>)
         \o collectSignatures(t, p + 1)

\* needsUpdate that also asks for a file of equal modification time.
needsUpdateMut(local, remoteSig, statErr) ==
  IF ~local.exists THEN TRUE
  ELSE IF statErr THEN TRUE
  ELSE IF Len(local.data) # remoteSig.Size THEN TRUE
  ELSE local.mtime <= remoteSig.ModTime

\* needsUpdate: statErr is os.Stat failing on a file that exists.
needsUpdate(local, remoteSig, statErr) ==
  IF ~local.exists THEN TRUE
  ELSE IF statErr THEN TRUE
  ELSE IF Len(local.data) # remoteSig.Size THEN TRUE
  ELSE IF local.mtime < remoteSig.ModTime THEN TRUE
  ELSE FALSE

\* One end of a sync connection: the function it runs (SendVolume or
\* ReceiveVolume), where it is in it, whether its side of the connection is
\* open and whether its caller keeps the connection after the function
\* returns; count signatures to read, the needed files, the files still to
\* send or receive, the paths written, and how this end left the pass before.
EpIdle ==
  [role |-> "none", pc |-> "idle", open |-> FALSE, keep |-> FALSE,
   count |-> 0, needed |-> << >>, todo |-> << >>, wrote |-> {},
   prev |-> "idle"]

Finished(e) == ep[e].pc \in {"idle", "done", "failed"}

\* The function returns: err is its error.
Return(r, err) ==
  [r EXCEPT !.pc = IF err THEN "failed" ELSE "done", !.open = r.keep]

StartSend(keep) ==
  [EpIdle EXCEPT !.role = "send", !.pc = "start", !.open = TRUE,
                 !.keep = keep]
StartReceive(keep) ==
  [EpIdle EXCEPT !.role = "recv", !.pc = "count", !.open = TRUE,
                 !.keep = keep]

\* Server.handleConnection up to the call of ReceiveVolume: without a
\* registered volume it returns and the connection is closed.
handleConnection ==
  IF volumePaths = {} THEN EpIdle ELSE StartReceive(FALSE)

\* A read returns: with a message, or with the end of the stream once the
\* peer has closed and nothing is left; otherwise it blocks.
CanRead(e) == inbox[e] # << >> \/ ~ep[Peer(e)].open

mgrVars == << heap, containers, disk, rt, now, rm, health, probes, hm, last,
              writeFailed, monStarts >>

\* SendVolume: collect the signatures, send their count and each of them.
SendSignatures(e) ==
  /\ ep[e].role = "send" /\ ep[e].pc = "start"
  /\ LET sigs == collectSignatures(tree[e], 1)
         msgs == << [t |-> "count", n |-> Len(sigs)] >>
                   \o [i \in 1..Len(sigs) |-> [t |-> "sig", sig |-> sigs[i]]]
     IN IF ep[Peer(e)].open
        THEN /\ inbox' = [inbox EXCEPT ![Peer(e)] = @ \o msgs]
             /\ ep' = [ep EXCEPT ![e].pc = "wait"]
        ELSE /\ ep' = [ep EXCEPT ![e] = Return(@, TRUE)]
             /\ UNCHANGED inbox
  /\ UNCHANGED << mgrVars, svcVars, faults, tree, volumePaths, pass, join >>

\* SendVolume: receive the list of needed files.
ReceiveNeeded(e) ==
  /\ ep[e].role = "send" /\ ep[e].pc = "wait"
  /\ CanRead(e)
  /\ IF inbox[e] = << >>
     THEN /\ ep' = [ep EXCEPT ![e] = Return(@, TRUE)]
          /\ UNCHANGED inbox
     ELSE /\ ep' = [ep EXCEPT ![e].pc = "send",
                              ![e].todo = Head(inbox[e]).paths]
          /\ inbox' = [inbox EXCEPT ![e] = Tail(@)]
  /\ UNCHANGED << mgrVars, svcVars, faults, tree, volumePaths, pass, join >>

\* SendVolume: sendFile for the next needed file (metadata, then the
\* content); after the last one SendVolume returns nil.
sendFile(e) ==
  /\ ep[e].role = "send" /\ ep[e].pc = "send"
  /\ IF ep[e].todo = << >>
     THEN /\ ep' = [ep EXCEPT ![e] = Return(@, FALSE)]
          /\ UNCHANGED inbox
     ELSE LET p == Head(ep[e].todo)
              f == tree[e][p]
          IN IF ~f.exists \/ ~ep[Peer(e)].open
             THEN /\ ep' = [ep EXCEPT ![e] = Return(@, TRUE)]
                  /\ UNCHANGED inbox
             ELSE /\ inbox' = [inbox EXCEPT ![Peer(e)] =
                                 Append(@, [t |-> "file",
                                            meta |-> [Path |-> p,
                                                      Size |-> Len(f.data),
                                                      ModTime |-> f.mtime],
                                            data |-> f.data])]
                  /\ ep' = [ep EXCEPT ![e].todo = Tail(@)]
  /\ UNCHANGED << mgrVars, svcVars, faults, tree, volumePaths, pass, join >>

\* ReceiveVolume: receive the signature count.
ReceiveCount(e) ==
  /\ ep[e].role = "recv" /\ ep[e].pc = "count"
  /\ CanRead(e)
  /\ IF inbox[e] = << >>
     THEN /\ ep' = [ep EXCEPT ![e] = Return(@, TRUE)]
          /\ UNCHANGED inbox
     ELSE /\ ep' = [ep EXCEPT ![e].pc = "sigs",
                              ![e].count = Head(inbox[e]).n]
          /\ inbox' = [inbox EXCEPT ![e] = Tail(@)]
  /\ UNCHANGED << mgrVars, svcVars, faults, tree, volumePaths, pass, join >>

\* ReceiveVolume: receive one signature and decide with needsUpdate.
ReceiveSignature(e) ==
  /\ ep[e].role = "recv" /\ ep[e].pc = "sigs" /\ ep[e].count > 0
  /\ CanRead(e)
  /\ IF inbox[e] = << >>
     THEN /\ ep' = [ep EXCEPT ![e] = Return(@, TRUE)]
          /\ UNCHANGED << inbox, faults >>
     ELSE \E statErr \in BOOLEAN :
            LET sig == Head(inbox[e]).sig IN
            /\ statErr => faults < MaxFaults /\ tree[e][sig.Path].exists
            /\ faults' = IF statErr THEN faults + 1 ELSE faults
            /\ ep' = [ep EXCEPT
                        ![e].count = @ - 1,
                        ![e].needed =
                          IF needsUpdate(tree[e][sig.Path], sig, statErr)
                          THEN Append(@, sig.Path) ELSE @]
            /\ inbox' = [inbox EXCEPT ![e] = Tail(@)]
  /\ UNCHANGED << mgrVars, svcVars, tree, volumePaths, pass, join >>

\* ReceiveVolume: send the list of needed files.
SendNeeded(e) ==
  /\ ep[e].role = "recv" /\ ep[e].pc = "sigs" /\ ep[e].count = 0
  /\ IF ep[Peer(e)].open
     THEN /\ inbox' = [inbox EXCEPT ![Peer(e)] =
                         Append(@, [t |-> "needed", paths |-> ep[e].needed])]
          /\ ep' = [ep EXCEPT ![e].pc = "files", ![e].todo = ep[e].needed]
     ELSE /\ ep' = [ep EXCEPT ![e] = Return(@, TRUE)]
          /\ UNCHANGED inbox
  /\ UNCHANGED << mgrVars, svcVars, faults, tree, volumePaths, pass, join >>

\* ReceiveVolume: receiveFile for the next needed file; after the last one
\* ReceiveVolume returns nil.  receiveFile decodes the metadata with a new
\* gob.Decoder, which reads the connection through a buffer of its own, and
\* then copies Size bytes from the connection itself: the first lost bytes
\* of the content, those the decoder had already buffered, are missing from
\* the file, and the copy ends in an error at the end of the stream.
receiveFile(e) ==
  /\ ep[e].role = "recv" /\ ep[e].pc = "files"
  /\ ep[e].todo # << >> => CanRead(e)
  /\ IF ep[e].todo = << >>
     THEN /\ ep' = [ep EXCEPT ![e] = Return(@, FALSE)]
          /\ UNCHANGED << inbox, tree, faults >>
     ELSE IF inbox[e] = << >>
     THEN /\ ep' = [ep EXCEPT ![e] = Return(@, TRUE)]
          /\ UNCHANGED << inbox, tree, faults >>
     ELSE LET m == Head(inbox[e]) IN
          \E lost \in 0..Len(m.data) :
            /\ lost > 0 => faults < MaxFaults
            /\ faults' = IF lost > 0 THEN faults + 1 ELSE faults
            /\ tree' = [tree EXCEPT ![e][m.meta.Path] =
                          FileOf(SubSeq(m.data, lost + 1, Len(m.data)), now)]
            /\ inbox' = [inbox EXCEPT ![e] = Tail(@)]
            /\ ep' = [ep EXCEPT
                        ![e] = IF lost > 0
                               THEN Return([@ EXCEPT !.wrote =
                                              @ \cup {m.meta.Path}], TRUE)
                               ELSE [@ EXCEPT !.todo = Tail(@),
                                              !.wrote = @ \cup {m.meta.Path}]]
  /\ UNCHANGED << mgrVars, svcVars, volumePaths, pass, join >>

\* Server.RegisterVolume / UnregisterVolume
RegisterVolume ==
  \E id \in Ids :
    /\ id \notin volumePaths
    /\ volumePaths' = volumePaths \cup {id}
    /\ UNCHANGED << mgrVars, svcVars, faults, tree, ep, inbox, pass, join >>

UnregisterVolume ==
  \E id \in Ids :
    /\ id \in volumePaths
    /\ volumePaths' = volumePaths \ {id}
    /\ UNCHANGED << mgrVars, svcVars, faults, tree, ep, inbox, pass, join >>

\* SyncManager.SyncVolume dials the server and calls SendVolume; the server
\* accepts and runs handleConnection.
SyncVolume ==
  /\ Finished("client") /\ Finished("server")
  /\ pass < MaxPasses
  /\ pass' = pass + 1
  /\ ep' = [n \in Nodes |->
              [(IF n = "client" THEN StartSend(FALSE) ELSE handleConnection)
                 EXCEPT !.prev = ep[n].pc]]
  /\ inbox' = [n \in Nodes |-> << >>]
  /\ UNCHANGED << mgrVars, svcVars, faults, tree, volumePaths, join >>

\* ------------------------------------------------------------------ chirp
\* Container ids and the id given on the command line are strings over a
\* two-letter alphabet; a discovered record carries its id and whether it
\* advertises an address.
ArgStrings == UNION { [1..n -> {1, 2}] : n \in 0..IdLen }
DiscoveredLists ==
  LET Discovered == [ID : [1..IdLen -> {1, 2}], hasIP : BOOLEAN]
  IN UNION { [1..n -> Discovered] : n \in 0..MaxDiscovered }

\* strings.HasPrefix
HasPrefix(str, prefix) ==
  Len(prefix) <= Len(str) /\ SubSeq(str, 1, Len(prefix)) = prefix

\* The index of the first record whose id has the prefix; 0: there is none.
RECURSIVE FirstMatch(_, _, _)
FirstMatch(list, arg, i) ==
  IF i > Len(list) THEN 0
  ELSE IF HasPrefix(list[i].ID, arg) THEN i
  ELSE FirstMatch(list, arg, i + 1)

JoinIdle ==
  [pc |-> "idle", arg |-> << >>, list |-> << >>, dryRun |-> FALSE,
   syncVolumes |-> FALSE, steps |-> << >>]

\* joinContainer with the test of --dry-run after manager.Create.
AfterDiscoveryMut(discErr, list, arg, dryRun) ==
  IF discErr THEN "error"
  ELSE LET i == FirstMatch(list, arg, 1) IN
       IF i = 0 THEN "error"
       ELSE IF ~list[i].hasIP THEN "error"
       ELSE "init"

\* joinContainer from the discovery query to the test of --dry-run: where
\* the join goes on.
AfterDiscovery(discErr, list, arg, dryRun) ==
  IF discErr THEN "error"
  ELSE LET i == FirstMatch(list, arg, 1) IN
       IF i = 0 THEN "error"
       ELSE IF ~list[i].hasIP THEN "error"
       ELSE IF dryRun THEN "done"
       ELSE "init"

\* joinContainer, step 1: the discovery query and the choice of the target.
JoinDiscover ==
  /\ join.pc = "idle"
  /\ \E arg \in ArgStrings, list \in DiscoveredLists, discErr \in BOOLEAN,
        dryRun \in BOOLEAN, syncVolumes \in BOOLEAN :
       /\ discErr => list = << >>
       /\ join' = [pc |-> AfterDiscovery(discErr, list, arg, dryRun),
                   arg |-> arg, list |-> list, dryRun |-> dryRun,
                   syncVolumes |-> syncVolumes, steps |-> << "discover" >>]
  /\ UNCHANGED << mgrVars, svcVars, faults, tree, ep, inbox, volumePaths, pass >>

\* joinContainer, steps 2 to 4: the runtime, the manager and the volume
\* directory (initErr: one of them fails), then manager.Create of the replica.
JoinCreate ==
  /\ join.pc = "init"
  /\ \/ /\ join' = [join EXCEPT !.pc = "error"]
        /\ UNCHANGED << mgrVars, faults >>
     \/ /\ \E id \in Ids, fault \in RtFaultsCreate, save \in SaveOutcomes :
             Create(id, NilPolicy, NilHealth, 8080, fault, save)
        /\ join' = [join EXCEPT
                      !.pc = IF last'.err # "nil" THEN "error"
                             ELSE IF join.syncVolumes THEN "dial"
                             ELSE "start",
                      !.steps = Append(@, "create")]
  /\ UNCHANGED << svcVars, tree, ep, inbox, volumePaths, pass >>

\* joinContainer, step 5: net.DialTimeout to the primary's sync server; a
\* failed dial is a warning.  Connected, the join calls ReceiveVolume and
\* keeps the connection until it returns; the server accepts and runs
\* handleConnection.
JoinDial ==
  /\ join.pc = "dial"
  /\ \E connected \in BOOLEAN :
       IF connected
       THEN /\ ep' = [ep EXCEPT !["client"] = StartReceive(TRUE),
                                !["server"] = handleConnection]
            /\ inbox' = [n \in Nodes |-> << >>]
            /\ pass' = pass + 1
            /\ join' = [join EXCEPT !.pc = "sync",
                                    !.steps = Append(@, "sync")]
       ELSE /\ join' = [join EXCEPT !.pc = "start",
                                    !.steps = Append(@, "sync")]
            /\ UNCHANGED << ep, inbox, pass >>
  /\ UNCHANGED << mgrVars, svcVars, faults, tree, volumePaths >>

\* joinContainer: ReceiveVolume has returned; its error is a warning.
JoinSynced ==
  /\ join.pc = "sync"
  /\ ep["client"].pc \in {"done", "failed"}
  /\ join' = [join EXCEPT !.pc = "start"]
  /\ UNCHANGED << mgrVars, svcVars, faults, tree, ep, inbox, volumePaths, pass >>

\* joinContainer returns: the deferred conn.Close runs.
Closed(eps) == [eps EXCEPT !["client"].open = FALSE]

\* joinContainer: manager.Start of the replica.
JoinStart ==
  /\ join.pc = "start"
  /\ \E fault \in RtFaultsStart, save \in SaveOutcomes :
       StartCall(heap[Len(heap)].ID, "user", fault, save)
  /\ join' = [join EXCEPT !.pc = IF last'.err # "nil" THEN "error"
                                 ELSE "announce",
                          !.steps = Append(@, "start")]
  /\ ep' = IF last'.err # "nil" THEN Closed(ep) ELSE ep
  /\ UNCHANGED << rm, svcVars, tree, inbox, volumePaths, pass >>

\* joinContainer: disc.AnnounceContainer, whose error is a warning; return.
JoinAnnounce ==
  /\ join.pc = "announce"
  /\ join' = [join EXCEPT !.pc = "done", !.steps = Append(@, "announce")]
  /\ ep' = Closed(ep)
  /\ UNCHANGED << mgrVars, svcVars, faults, tree, inbox, volumePaths, pass >>

\* -------------------------------------------------------------- discovery
\* A TXT field is a string, here a sequence of tokens of which "=" is the
\* separator; an mDNS entry carries its IPv4 marker, its TXT fields (none at
\* all when InfoFields is nil) and the port of the service.
ServiceEntries ==
  LET TxtFields ==
        { << "container_id", "=", "a" >>, << "container_id", "=", "b" >>,
          << "container_id" >>, << "container_name", "=", "a" >> }
  IN  [Typev4 : BOOLEAN,
       InfoFields : {<< >>} \cup {<< f >> : f \in TxtFields}
                      \cup {<< f, g >> : f \in TxtFields, g \in TxtFields},
       Port : {8080, 8081}]

\* parseTxtField: key and value around the first "=".
parseTxtField(field) ==
  LET eq == {i \in 1..Len(field) : field[i] = "="}
  IN  IF eq = {}
      THEN [key |-> << >>, val |-> << >>, ok |-> FALSE]
      ELSE LET i == CHOOSE j \in eq : \A k \in eq : j <= k
           IN  [key |-> SubSeq(field, 1, i - 1),
                val |-> SubSeq(field, i + 1, Len(field)), ok |-> TRUE]

\* parseEntry: << >> for nil, else the one record built from the TXT
\* fields; a later field of the same key overwrites an earlier one.
parseEntry(entry) ==
  LET kv == [i \in DOMAIN entry.InfoFields |->
               parseTxtField(entry.InfoFields[i])]
      At(key) == {i \in DOMAIN kv : kv[i].ok /\ kv[i].key = << key >>}
      infoMap(key) ==
        IF At(key) = {} THEN << >>
        ELSE kv[CHOOSE i \in At(key) : \A j \in At(key) : j <= i].val
  IN  IF ~entry.Typev4 \/ At("container_id") = {} THEN << >>
      ELSE << [ID |-> infoMap("container_id"),
               Name |-> infoMap("container_name"),
               Port |-> entry.Port] >>

\* DiscoverContainers up to mdns.Query: the collecting goroutine is started.
DiscoverContainers ==
  /\ disc.pc # "query"
  /\ disc' = [pc |-> "query", entries |-> << >>, containers |-> << >>]
  /\ UNCHANGED << mgrVars, faults, syncVars, lb, reqs, graph, wait, sm, sdir, netVars >>

\* The collecting goroutine takes one entry from the channel: skipped when
\* it has no TXT fields or parseEntry returns nil, appended otherwise.
DiscoverEntry ==
  /\ disc.pc = "query"
  /\ Len(disc.entries) < MaxEntries
  /\ \E entry \in ServiceEntries :
       disc' = [disc EXCEPT
                  !.entries = Append(@, entry),
                  !.containers = IF entry.InfoFields = << >> THEN @
                                 ELSE @ \o parseEntry(entry)]
  /\ UNCHANGED << mgrVars, faults, syncVars, lb, reqs, graph, wait, sm, sdir, netVars >>

\* The timeout fires and DiscoverContainers returns the list collected.
DiscoverReturn ==
  /\ disc.pc = "query"
  /\ disc' = [disc EXCEPT !.pc = "done"]
  /\ UNCHANGED << mgrVars, faults, syncVars, lb, reqs, graph, wait, sm, sdir, netVars >>

\* ---------------------------------------------------------- reverse proxy
\* One ContainerProxy and the pool of one container id.  lb.backends holds
\* the backend objects allocated so far (index = pointer; a request keeps its
\* pointers across RemoveBackend) and lb.pool is pool.backends, in order.
\* A backend's probe field records the latest probe result of it ("recovered":
\* 200 after a failure) and lb.log the backends requests were forwarded to
\* since the set of active backends last changed; lb.n counts the requests.
\* A selection is one step: it runs under pool.mu and reads each Active once.

\* roundRobinSelect without the counter: 0 for nil.
roundRobinSelect(l) ==
  LET activeBackends == SelectSeq(l.pool, LAMBDA b : l.backends[b].Active)
  IN  IF activeBackends = << >> THEN 0
      ELSE activeBackends[(l.current % Len(activeBackends)) + 1]

\* leastConnSelect: the first active backend of the pool with the least
\* Conn; 0 for nil.
leastConnSelect(l) ==
  LET act == SelectSeq(l.pool, LAMBDA b : l.backends[b].Active)
      conn(i) == l.backends[act[i]].Conn
  IN  IF act = << >> THEN 0
      ELSE act[CHOOSE i \in DOMAIN act :
                 /\ \A j \in DOMAIN act : conn(i) <= conn(j)
                 /\ \A j \in 1..(i - 1) : conn(j) > conn(i)]

\* selectBackend: the backend chosen and pool.current after the call
\* (roundRobinSelect adds 1 once it has found an active backend).
selectBackend(l) ==
  IF l.type = "least-connections"
  THEN [backend |-> leastConnSelect(l), current |-> l.current]
  ELSE [backend |-> roundRobinSelect(l),
        current |-> IF roundRobinSelect(l) = 0 THEN l.current
                    ELSE l.current + 1]

NewContainerProxy ==
  /\ lb.type = "none"
  /\ \E lbType \in {"round-robin", "least-connections"} :
       lb' = [lb EXCEPT !.type = lbType]
  /\ UNCHANGED << mgrVars, faults, syncVars, disc, reqs, graph, wait, sm, sdir, netVars >>

\* AddBackend: the pool is created on first use; the new backend is active.
AddBackend ==
  /\ lb.type # "none"
  /\ Len(lb.backends) < MaxBackends
  /\ \E url \in 1..MaxBackends :
       lb' = [lb EXCEPT
                !.exists = TRUE,
                !.backends = Append(@, [URL |-> url, Active |-> TRUE,
                                        Conn |-> 0, probe |-> "none"]),
                !.pool = Append(@, Len(lb.backends) + 1),
                !.log = << >>]
  /\ UNCHANGED << mgrVars, faults, syncVars, disc, reqs, graph, wait, sm, sdir, netVars >>

\* RemoveBackend: the first backend of the pool with that URL is cut out.
RemoveBackend ==
  /\ lb.exists
  /\ \E url \in 1..MaxBackends :
       LET at == {i \in DOMAIN lb.pool : lb.backends[lb.pool[i]].URL = url}
       IN  /\ at # {}
           /\ LET i == CHOOSE j \in at : \A k \in at : j <= k
              IN  lb' = [lb EXCEPT
                           !.pool = SubSeq(@, 1, i - 1)
                                      \o SubSeq(@, i + 1, Len(@)),
                           !.log = << >>]
  /\ UNCHANGED << mgrVars, faults, syncVars, disc, reqs, graph, wait, sm, sdir, netVars >>

ReqIdle == [pc |-> "idle", counted |-> 0, target |-> 0, gate |-> "none",
            resp |-> "none"]

\* The handler GetProxy returned, up to proxy.ServeHTTP: it selects a
\* backend, answers 503 when there is none, and adds 1 to the Conn of the
\* backend it selected.
Handler(r) ==
  /\ lb.exists
  /\ reqs[r].pc = "idle"
  /\ lb.n < MaxRequests
  /\ LET sel == selectBackend(lb)
     IN  IF sel.backend = 0
         THEN /\ lb' = [lb EXCEPT !.n = @ + 1]
              /\ reqs' = [reqs EXCEPT ![r] = [ReqIdle EXCEPT !.resp = "503"]]
         ELSE /\ lb' = [lb EXCEPT !.n = @ + 1,
                                  !.current = sel.current,
                                  !.backends[sel.backend].Conn = @ + 1]
              /\ reqs' = [reqs EXCEPT ![r] = [ReqIdle EXCEPT
                                                !.pc = "director",
                                                !.counted = sel.backend]]
  /\ UNCHANGED << mgrVars, faults, syncVars, disc, graph, wait, sm, sdir, netVars >>

\* The Director of the ReverseProxy: it selects again and points the
\* request at that backend; with none it returns and the request goes out
\* as it came in (target 0).  gate: the probe field of the target then.
Director(r) ==
  /\ reqs[r].pc = "director"
  /\ LET sel == selectBackend(lb)
     IN  /\ lb' = [lb EXCEPT !.current = sel.current,
                             !.log = Append(@, sel.backend)]
         /\ reqs' = [reqs EXCEPT
                       ![r].pc = "inflight",
                       ![r].target = sel.backend,
                       ![r].gate = IF sel.backend = 0 THEN "none"
                                   ELSE lb.backends[sel.backend].probe]
  /\ UNCHANGED << mgrVars, faults, syncVars, disc, graph, wait, sm, sdir, netVars >>

\* proxy.ServeHTTP returns and the deferred Conn.Add(-1) runs.
Complete(r) ==
  /\ reqs[r].pc = "inflight"
  /\ lb' = [lb EXCEPT !.backends[reqs[r].counted].Conn = @ - 1]
  /\ reqs' = [reqs EXCEPT
                ![r] = [ReqIdle EXCEPT
                          !.resp = IF reqs[r].target = 0 THEN "other"
                                   ELSE "proxied"]]
  /\ UNCHANGED << mgrVars, faults, syncVars, disc, graph, wait, sm, sdir, netVars >>

checkBackendMut(b, ok) ==
  /\ b \in DOMAIN lb.backends
  /\ lb' = [lb EXCEPT
              !.backends[b].Active = ok \/ @,
              !.backends[b].probe =
                 IF ~ok THEN "fail"
                 ELSE IF @ \in {"fail", "recovered"} THEN "recovered"
                 ELSE "ok",
              !.log = << >>]
  /\ UNCHANGED << mgrVars, faults, syncVars, disc, reqs, graph, wait, sm, sdir, netVars >>

\* checkBackend returns for backend b, a pool member when checkAll started
\* it: Active is stored false on an error or a status other than 200, true
\* otherwise.
checkBackend(b, ok) ==
  /\ b \in DOMAIN lb.backends
  /\ lb' = [lb EXCEPT
              !.backends[b].Active = ok,
              !.backends[b].probe =
                 IF ~ok THEN "fail"
                 ELSE IF @ \in {"fail", "recovered"} THEN "recovered"
                 ELSE "ok",
              !.log = IF lb.backends[b].Active = ok THEN @ ELSE << >>]
  /\ UNCHANGED << mgrVars, faults, syncVars, disc, reqs, graph, wait, sm, sdir, netVars >>

\* ---------------------------------------------------- dependency resolver
\* The DependencyGraph: g.containers is the set of names added and g.nodes
\* maps a name to its depends_on list.  graph also keeps what the latest
\* GetStartOrder returned (order << >> for nil).
Names == {"a", "b", "c"}

GraphIdle == [containers |-> {}, nodes |-> [n \in Names |-> << >>],
              called |-> FALSE, order |-> << >>, err |-> "nil"]

\* The closure visit of GetStartOrder.  st holds visited, inProgress, order
\* and the error; i = 0 enters visit(name), i >= 1 is the loop over
\* g.nodes[name] at its i-th element, past the end it is the exit.
RECURSIVE visit(_, _, _, _)
visit(g, name, i, st) ==
  IF i = 0
  THEN IF name \in st.inProgress THEN [st EXCEPT !.err = "circular"]
       ELSE IF name \in st.visited THEN st
       ELSE visit(g, name, 1, [st EXCEPT !.inProgress = @ \cup {name}])
  ELSE IF i <= Len(g.nodes[name])
  THEN IF g.nodes[name][i] \notin g.containers
       THEN [st EXCEPT !.err = "unknown"]
       ELSE LET s1 == visit(g, g.nodes[name][i], 0, st)
            IN  IF s1.err # "nil" THEN s1 ELSE visit(g, name, i + 1, s1)
  ELSE [st EXCEPT !.inProgress = @ \ {name},
                  !.visited = @ \cup {name},
                  !.order = IF name \in g.containers THEN Append(@, name)
                            ELSE @]

GetStartOrderPermMut(g, perm) == [order |-> perm, err |-> "nil"]

GetStartOrderNilMut(g, perm) == [order |-> << >>, err |-> "nil"]

\* GetStartOrder, the range over g.containers taking the names in the
\* order perm.
GetStartOrder(g, perm) ==
  LET RECURSIVE loop(_, _)
      loop(k, st) ==
        IF k > Len(perm) THEN st
        ELSE LET s1 == visit(g, perm[k], 0, st)
             IN  IF s1.err # "nil" THEN [s1 EXCEPT !.order = << >>]
                 ELSE loop(k + 1, s1)
  IN  LET st == loop(1, [visited |-> {}, inProgress |-> {},
                         order |-> << >>, err |-> "nil"])
      IN  [order |-> st.order, err |-> st.err]

\* AddContainer(ctr, dependsOn), ctr.Name = name.
AddContainer ==
  /\ \E name \in Names, n \in 0..MaxDeps :
       \E dependsOn \in [1..n -> Names] :
         graph' = [GraphIdle EXCEPT
                     !.containers = graph.containers \cup {name},
                     !.nodes = [graph.nodes EXCEPT ![name] = dependsOn]]
  /\ UNCHANGED << mgrVars, faults, syncVars, disc, lb, reqs, wait, sm, sdir, netVars >>

\* A call of GetStartOrder; Go ranges over the map in any order.
StartOrder ==
  /\ \E perm \in [1..Cardinality(graph.containers) -> graph.containers] :
       /\ \A i, j \in DOMAIN perm : perm[i] = perm[j] => i = j
       /\ graph' = [graph EXCEPT
                      !.called = TRUE,
                      !.order = GetStartOrder(graph, perm).order,
                      !.err = GetStartOrder(graph, perm).err]
  /\ UNCHANGED << mgrVars, faults, syncVars, disc, lb, reqs, wait, sm, sdir, netVars >>

\* WaitForDependencies.  wait.timeout is the number of ticks of the 500 ms
\* ticker that fall before the deadline and wait.ticks the ticks taken; a
\* dependency name is a container id, 0 a name no container has.
WaitIdle == [pc |-> "idle", deps |-> << >>, timeout |-> 0, ticks |-> 0,
             cancelled |-> FALSE, err |-> "nil"]

\* The call up to the select: nil at once for an empty list.
WaitForDependencies ==
  /\ wait.pc # "waiting"
  /\ \E n \in 0..MaxDeps, timeout \in 0..MaxPolls :
       \E dependencies \in [1..n -> Ids \cup {0}] :
         wait' = [WaitIdle EXCEPT
                    !.pc = IF n = 0 THEN "returned" ELSE "waiting",
                    !.deps = dependencies,
                    !.timeout = timeout]
  /\ UNCHANGED << mgrVars, faults, syncVars, disc, lb, reqs, graph, sm, sdir, netVars >>

\* The context of the call is cancelled (or its deadline passes).
CtxCancel ==
  /\ wait.pc = "waiting"
  /\ ~wait.cancelled
  /\ wait' = [wait EXCEPT !.cancelled = TRUE]
  /\ UNCHANGED << mgrVars, faults, syncVars, disc, lb, reqs, graph, sm, sdir, netVars >>

\* case <-ctx.Done(): return ctx.Err().
WaitCtxDone ==
  /\ wait.pc = "waiting"
  /\ wait.cancelled
  /\ wait' = [wait EXCEPT !.pc = "returned", !.err = "context"]
  /\ UNCHANGED << mgrVars, faults, syncVars, disc, lb, reqs, graph, sm, sdir, netVars >>

WaitPollMut ==
  /\ wait.pc = "waiting"
  /\ wait' = [wait EXCEPT !.ticks = @ + 1,
                          !.pc = IF wait.ticks + 1 > wait.timeout
                                 THEN "returned" ELSE @]
  /\ UNCHANGED << mgrVars, faults, syncVars, disc, lb, reqs, graph, sm, sdir, netVars >>

\* case <-ticker.C: the deadline test, then the dependencies in order up to
\* the first that is missing (error) or not running (next tick).  The
\* select takes this branch whenever a tick is due, cancelled or not.
WaitPoll ==
  /\ wait.pc = "waiting"
  /\ LET bad == {i \in DOMAIN wait.deps :
                   \/ wait.deps[i] = 0
                   \/ ~Known(wait.deps[i])
                   \/ Ctr(wait.deps[i]).State # StateRunning}
         i == CHOOSE j \in bad : \A k \in bad : j <= k
     IN  wait' =
           IF wait.ticks + 1 > wait.timeout
           THEN [wait EXCEPT !.ticks = @ + 1, !.pc = "returned",
                             !.err = "timeout"]
           ELSE IF bad = {}
           THEN [wait EXCEPT !.ticks = @ + 1, !.pc = "returned"]
           ELSE IF wait.deps[i] = 0 \/ ~Known(wait.deps[i])
           THEN [wait EXCEPT !.ticks = @ + 1, !.pc = "returned",
                             !.err = "not found"]
           ELSE [wait EXCEPT !.ticks = @ + 1]
  /\ UNCHANGED << mgrVars, faults, syncVars, disc, lb, reqs, graph, sm, sdir, netVars >>

\* ------------------------------------------------------------ secret store
\* sm is the SecretManager of the running process (up: one has been
\* constructed): its key, its map name -> encrypted secret, and the error of
\* its latest call.  sdir is the data directory: the key of .secrets.key
\* (0: no file; keys counts the keys generated so far) and secrets.json
\* (valid = FALSE: truncated by a failed write).  sm.expect is not program
\* state: per name, the plaintext of the latest Create or Update that
\* returned nil, cut out by a Remove that returned nil.
SecretNames == {"s", "t"}

\* AES-GCM under the key: the sealed data opens under that key only.
encrypt(key, plaintext) == [key |-> key, plain |-> plaintext]

decrypt(key, ciphertext) ==
  IF ciphertext.key = key THEN [val |-> ciphertext.plain, err |-> "nil"]
  ELSE [val |-> "", err |-> "open"]

\* GetSecret.
GetSecret(m, name) ==
  IF name \notin DOMAIN m.secrets THEN [val |-> "", err |-> "not found"]
  ELSE decrypt(m.key, m.secrets[name])

\* saveState: secrets.json after the call.
SecretsSaved(secrets, outcome) ==
  CASE outcome = "ok" -> [sdir EXCEPT !.valid = TRUE, !.secrets = secrets]
    [] outcome = "unchanged" -> sdir
    [] OTHER -> [sdir EXCEPT !.valid = FALSE]

\* NewSecretManager on the data directory (a process start).  The key file
\* is used when it can be read (keyRead), else a new key is generated and
\* written, the constructor failing when that write fails (the old file
\* then stays or is cut short); a secrets.json that cannot be read or parsed
\* leaves the map empty.
NewSecretManager ==
  /\ \E keyRead \in BOOLEAN, keyWrite \in BOOLEAN, keyKept \in BOOLEAN,
        load \in BOOLEAN :
       LET loaded == IF load /\ sdir.valid THEN sdir.secrets
                     ELSE [n \in {} |-> n]
       IN  IF sdir.key # 0 /\ keyRead
           THEN /\ sm' = [sm EXCEPT !.up = TRUE, !.key = sdir.key,
                                    !.secrets = loaded, !.err = "nil"]
                /\ sdir' = sdir
           ELSE /\ sdir.keys < MaxKeys
                /\ IF keyWrite
                   THEN /\ sm' = [sm EXCEPT !.up = TRUE,
                                            !.key = sdir.keys + 1,
                                            !.secrets = loaded,
                                            !.err = "nil"]
                        /\ sdir' = [sdir EXCEPT !.key = sdir.keys + 1,
                                                !.keys = @ + 1]
                   ELSE /\ sm' = [sm EXCEPT !.up = FALSE, !.err = "key"]
                        /\ sdir' = [sdir EXCEPT
                                      !.key = IF keyKept THEN @ ELSE 0,
                                      !.keys = @ + 1]
  /\ UNCHANGED << mgrVars, faults, syncVars, disc, lb, reqs, graph, wait, netVars >>

\* CreateSecret: the entry is taken out again when saveState fails.
CreateSecret ==
  /\ sm.up
  /\ \E name \in SecretNames, data \in {"p", "q"}, encrypted \in BOOLEAN,
        save \in SaveOutcomes :
       LET added == [n \in DOMAIN sm.secrets \cup {name} |->
                       IF n = name THEN encrypt(sm.key, data)
                       ELSE sm.secrets[n]]
       IN  IF name \in DOMAIN sm.secrets
           THEN sm' = [sm EXCEPT !.err = "exists"] /\ sdir' = sdir
           ELSE IF ~encrypted
           THEN sm' = [sm EXCEPT !.err = "encrypt"] /\ sdir' = sdir
           ELSE /\ sdir' = SecretsSaved(added, save)
                /\ sm' = IF save = "ok"
                         THEN [sm EXCEPT
                                 !.secrets = added, !.err = "nil",
                                 !.expect = [n \in DOMAIN @ \cup {name} |->
                                               IF n = name THEN data
                                               ELSE @[n]]]
                         ELSE [sm EXCEPT !.err = "save"]
  /\ UNCHANGED << mgrVars, faults, syncVars, disc, lb, reqs, graph, wait, netVars >>

\* UpdateSecret: secret.Data is assigned before saveState and stays
\* assigned when saveState fails.
UpdateSecret ==
  /\ sm.up
  /\ \E name \in SecretNames, data \in {"p", "q"}, encrypted \in BOOLEAN,
        save \in SaveOutcomes :
       IF name \notin DOMAIN sm.secrets
       THEN sm' = [sm EXCEPT !.err = "not found"] /\ sdir' = sdir
       ELSE IF ~encrypted
       THEN sm' = [sm EXCEPT !.err = "encrypt"] /\ sdir' = sdir
       ELSE LET updated == [sm.secrets EXCEPT
                              ![name] = encrypt(sm.key, data)]
            IN  /\ sdir' = SecretsSaved(updated, save)
                /\ sm' = [sm EXCEPT
                            !.secrets = updated,
                            !.err = IF save = "ok" THEN "nil" ELSE "save",
                            !.expect = IF save = "ok"
                                       THEN [@ EXCEPT ![name] = data]
                                       ELSE @]
  /\ UNCHANGED << mgrVars, faults, syncVars, disc, lb, reqs, graph, wait, netVars >>

\* RemoveSecret: the entry is deleted before saveState and stays deleted
\* when saveState fails.
RemoveSecret ==
  /\ sm.up
  /\ \E name \in SecretNames, save \in SaveOutcomes :
       IF name \notin DOMAIN sm.secrets
       THEN sm' = [sm EXCEPT !.err = "not found"] /\ sdir' = sdir
       ELSE LET removed == [n \in DOMAIN sm.secrets \ {name} |->
                              sm.secrets[n]]
            IN  /\ sdir' = SecretsSaved(removed, save)
                /\ sm' = [sm EXCEPT
                            !.secrets = removed,
                            !.err = IF save = "ok" THEN "nil" ELSE "save",
                            !.expect = IF save = "ok"
                                       THEN [n \in DOMAIN @ \ {name} |-> @[n]]
                                       ELSE @]
  /\ UNCHANGED << mgrVars, faults, syncVars, disc, lb, reqs, graph, wait, netVars >>

\* --------------------------------------------------------- network manager
\* An address is a number below MaxAddr (standing for the 2^32 addresses of
\* IPv4); a parsed subnet is its first address and its size, size 0 for a
\* string net.ParseCIDR rejects, and gateway -1 for a string net.ParseIP
\* rejects.  nm.networks is the map name -> network, nm.file what
\* networks.json holds.  nm.ips is not program state: the addresses returned by
\* the ConnectContainer calls of the containers now attached, as
\* << network, container, address >>.
Contains(subnet, ip) == ip \in subnet.base .. subnet.base + subnet.size - 1

\* incrementIP: add one, the carry running off the first byte.
incrementIP(ip) == (ip + 1) % MaxAddr

\* allocateIP: two increments from the subnet's address, then one per
\* attached container.
allocateIP(network) ==
  LET ip[k \in 0 .. 2 + Len(network.Containers)] ==
        IF k = 0 THEN network.Subnet.base ELSE incrementIP(ip[k - 1])
      addr == ip[2 + Len(network.Containers)]
  IN  IF Contains(network.Subnet, addr)
      THEN [ip |-> addr, err |-> "nil"]
      ELSE [ip |-> -1, err |-> "no available IPs"]

\* saveState: networks.json after a call that changed the map; its error
\* is only logged.  The file holds the list of the map as it now is
\* ("current"), an earlier list ("stale"), or a list cut short ("partial").
NetworksSaved(outcome) ==
  CASE outcome = "ok" -> "current"
    [] outcome = "unchanged" -> IF nm.file = "partial" THEN "partial"
                                ELSE "stale"
    [] OTHER -> "partial"

CreateNetwork ==
  \E name \in {"budgie0", "n1"},
     subnet \in {[base |-> 8, size |-> 4], [base |-> 14, size |-> 2],
                 [base |-> 0, size |-> 0]},
     gateway \in {-1, 1, 9, 10, 15}, save \in SaveOutcomes :
    LET err == IF name \in DOMAIN nm.networks THEN "exists"
               ELSE IF subnet.size = 0 THEN "invalid subnet"
               ELSE IF gateway = -1 THEN "invalid gateway"
               ELSE IF ~Contains(subnet, gateway) THEN "gateway outside"
               ELSE "nil"
        added == [n \in DOMAIN nm.networks \cup {name} |->
                    IF n = name
                    THEN [Subnet |-> subnet, Gateway |-> gateway,
                          Containers |-> << >>]
                    ELSE nm.networks[n]]
    IN  /\ nm' = IF err # "nil"
                 THEN [nm EXCEPT !.op = "CreateNetwork", !.name = name,
                                 !.err = err]
                 ELSE [nm EXCEPT !.op = "CreateNetwork", !.name = name,
                                 !.err = "nil", !.networks = added,
                                 !.file = NetworksSaved(save)]
        /\ UNCHANGED << mgrVars, faults, syncVars, disc, lb, reqs, graph,
                        wait, sm, sdir, bo, extVars >>

\* A RemoveNetwork without the test of the attached containers.
RemoveNetworkMut ==
  \E name \in {"budgie0", "n1"}, save \in SaveOutcomes :
    LET err == IF name \notin DOMAIN nm.networks THEN "not found"
               ELSE IF name = "budgie0" THEN "default"
               ELSE "nil"
        removed == [n \in DOMAIN nm.networks \ {name} |-> nm.networks[n]]
    IN  /\ nm' = IF err # "nil"
                 THEN [nm EXCEPT !.op = "RemoveNetwork", !.name = name,
                                 !.err = err]
                 ELSE [nm EXCEPT !.op = "RemoveNetwork", !.name = name,
                                 !.err = "nil", !.networks = removed,
                                 !.file = NetworksSaved(save)]
        /\ UNCHANGED << mgrVars, faults, syncVars, disc, lb, reqs, graph,
                        wait, sm, sdir, bo, extVars >>

RemoveNetwork ==
  \E name \in {"budgie0", "n1"}, save \in SaveOutcomes :
    LET err == IF name \notin DOMAIN nm.networks THEN "not found"
               ELSE IF Len(nm.networks[name].Containers) > 0 THEN "in use"
               ELSE IF name = "budgie0" THEN "default"
               ELSE "nil"
        removed == [n \in DOMAIN nm.networks \ {name} |-> nm.networks[n]]
    IN  /\ nm' = IF err # "nil"
                 THEN [nm EXCEPT !.op = "RemoveNetwork", !.name = name,
                                 !.err = err]
                 ELSE [nm EXCEPT !.op = "RemoveNetwork", !.name = name,
                                 !.err = "nil", !.networks = removed,
                                 !.file = NetworksSaved(save)]
        /\ UNCHANGED << mgrVars, faults, syncVars, disc, lb, reqs, graph,
                        wait, sm, sdir, bo, extVars >>

ConnectContainer ==
  \E networkName \in {"budgie0", "n1"}, containerID \in {"x", "y"},
     save \in SaveOutcomes :
    LET known == networkName \in DOMAIN nm.networks
        network == nm.networks[networkName]
        alloc == allocateIP(network)
        err == IF ~known THEN "not found"
               ELSE IF \E i \in DOMAIN network.Containers :
                         network.Containers[i] = containerID
                    THEN "already connected"
               ELSE alloc.err
        connected == [nm.networks EXCEPT ![networkName].Containers =
                                           Append(@, containerID)]
    IN  /\ nm' = IF err # "nil"
                 THEN [nm EXCEPT !.op = "ConnectContainer",
                                 !.name = networkName, !.err = err]
                 ELSE [nm EXCEPT !.op = "ConnectContainer",
                                 !.name = networkName, !.err = "nil",
                                 !.networks = connected,
                                 !.file = NetworksSaved(save),
                                 !.ips = @ \cup {<< networkName, containerID,
                                                    alloc.ip >>}]
        /\ UNCHANGED << mgrVars, faults, syncVars, disc, lb, reqs, graph,
                        wait, sm, sdir, bo, extVars >>

DisconnectContainer ==
  \E networkName \in {"budgie0", "n1"}, containerID \in {"x", "y"},
     save \in SaveOutcomes :
    LET known == networkName \in DOMAIN nm.networks
        network == nm.networks[networkName]
        err == IF ~known THEN "not found"
               ELSE IF \A i \in DOMAIN network.Containers :
                         network.Containers[i] # containerID
                    THEN "not connected"
               ELSE "nil"
        disconnected == [nm.networks EXCEPT ![networkName].Containers =
                           SelectSeq(@, LAMBDA c : c # containerID)]
    IN  /\ nm' = IF err # "nil"
                 THEN [nm EXCEPT !.op = "DisconnectContainer",
                                 !.name = networkName, !.err = err]
                 ELSE [nm EXCEPT !.op = "DisconnectContainer",
                                 !.name = networkName, !.err = "nil",
                                 !.networks = disconnected,
                                 !.file = NetworksSaved(save),
                                 !.ips = {t \in @ : ~(t[1] = networkName
                                                      /\ t[2] = containerID)}]
        /\ UNCHANGED << mgrVars, faults, syncVars, disc, lb, reqs, graph,
                        wait, sm, sdir, bo, extVars >>

\* ------------------------------------------------------- 64-bit backoff
\* A time.Duration is an int64 count of nanoseconds, here its eight bytes,
\* lowest first, in two's complement.
\* The product of two int64, the carry out of the top byte dropped.
Mul64(a, b) ==
  LET col[k \in 1..8] ==
        LET part[i \in 0..k] ==
              IF i = 0 THEN 0 ELSE part[i - 1] + a[i] * b[k + 1 - i]
        IN  part[k]
      carry[k \in 0..8] ==
        IF k = 0 THEN 0 ELSE (col[k] + carry[k - 1]) \div 256
  IN  [k \in 1..8 |-> (col[k] + carry[k - 1]) % 256]

\* a > b on int64: the top bit is the sign.
Gt64(a, b) ==
  IF (a[8] >= 128) # (b[8] >= 128) THEN b[8] >= 128
  ELSE \E k \in 1..8 : a[k] > b[k] /\ \A j \in k + 1 .. 8 : a[j] = b[j]

\* time.Second, 1000000000.
Second64 == << 0, 202, 154, 59, 0, 0, 0, 0 >>

\* rm.maxBackoff, 5 * time.Minute.
maxBackoff64 ==
  Mul64(Second64, << MaxBackoff % 256, MaxBackoff \div 256, 0, 0, 0, 0, 0, 0 >>)

\* RestartMonitor.calculateBackoff on int64: time.Second times 1 shifted
\* left by restartCount (a shift by 64 or more gives 0), cut to maxBackoff.
calculateBackoff64(restartCount) ==
  LET shifted == [k \in 1..8 |->
                    IF restartCount < 64 /\ restartCount \div 8 = k - 1
                    THEN 2 ^ (restartCount % 8) ELSE 0]
      backoff == Mul64(Second64, shifted)
  IN  IF Gt64(backoff, maxBackoff64) THEN maxBackoff64 ELSE backoff

\* ------------------------------------------------- sync server: the roots
\* srv.volumePaths is Server.volumePaths, container id -> volume path.
\* srv.conn is the latest connection: the container its client syncs, the
\* path registered for that container when the connection was handled, and
\* the volumePath handleConnection chose ("": it returned without one).
\* Server.RegisterVolume
RegisterVolumePath ==
  /\ \E containerID \in {"X", "Y", "Z"}, volumePath \in {"/x", "/y", "/z"} :
       srv' = [srv EXCEPT !.volumePaths =
                 [c \in DOMAIN @ \cup {containerID} |->
                    IF c = containerID THEN volumePath ELSE @[c]]]
  /\ UNCHANGED << mgrVars, faults, syncVars, disc, lb, reqs, graph, wait,
                  sm, sdir, nm, bo, ticked, sf, rd >>

\* Server.UnregisterVolume
UnregisterVolumePath ==
  /\ \E containerID \in {"X", "Y", "Z"} :
       srv' = [srv EXCEPT !.volumePaths =
                 [c \in DOMAIN @ \ {containerID} |-> @[c]]]
  /\ UNCHANGED << mgrVars, faults, syncVars, disc, lb, reqs, graph, wait,
                  sm, sdir, nm, bo, ticked, sf, rd >>

\* Server.handleConnection (and handleDeltaRequest) choosing the root: the
\* first path a range over the map yields, and Go ranges over a map in an
\* order that differs from run to run.
handleConnectionPath ==
  /\ \E id \in {"X", "Y", "Z"} :
       \E volumePath \in IF DOMAIN srv.volumePaths = {} THEN {""}
                          ELSE {srv.volumePaths[c] :
                                  c \in DOMAIN srv.volumePaths} :
         srv' = [srv EXCEPT !.conn =
                   [id |-> id,
                    registered |-> IF id \in DOMAIN srv.volumePaths
                                   THEN srv.volumePaths[id] ELSE "",
                    volumePath |-> volumePath]]
  /\ UNCHANGED << mgrVars, faults, syncVars, disc, lb, reqs, graph, wait,
                  sm, sdir, nm, bo, ticked, sf, rd >>

\* ------------------------------------------- state.json under a reader
\* The snapshots a manager saves are numbered (0: the file as the manager
\* found it) and are MaxChunks chunks long.  sf.file is the content of
\* state.json: a snapshot's number and how many of its chunks are in the
\* file.  sf.writing: the saving manager is inside os.WriteFile.  sf.data
\* is what the os.ReadFile of a second manager's loadState returned (loaded:
\* it has been called).
\* os.WriteFile, first half: the file is opened with O_TRUNC.
WriteFileOpen ==
  /\ ~sf.writing
  /\ sf.file.snapshot < MaxSaves
  /\ sf' = [sf EXCEPT !.writing = TRUE,
                      !.file = [snapshot |-> @.snapshot + 1, chunks |-> 0]]
  /\ UNCHANGED << mgrVars, faults, syncVars, disc, lb, reqs, graph, wait,
                  sm, sdir, nm, bo, ticked, srv, rd >>

\* os.WriteFile, second half: the data is written, then the file closed.
WriteFileWrite ==
  /\ sf.writing
  /\ sf' = IF sf.file.chunks < MaxChunks
           THEN [sf EXCEPT !.file.chunks = @ + 1]
           ELSE [sf EXCEPT !.writing = FALSE]
  /\ UNCHANGED << mgrVars, faults, syncVars, disc, lb, reqs, graph, wait,
                  sm, sdir, nm, bo, ticked, srv, rd >>

\* loadState of a manager constructed in another process: os.ReadFile
\* returns what the file holds at that moment.
loadState ==
  /\ sf' = [sf EXCEPT !.loaded = TRUE, !.data = sf.file]
  /\ UNCHANGED << mgrVars, faults, syncVars, disc, lb, reqs, graph, wait,
                  sm, sdir, nm, bo, ticked, srv, rd >>

\* ------------------------------------------------ a reader of a container
\* rd.ctr is the types.Container a reader holds the pointer of (from Get or
\* List), rd.pc where a Start or Stop of it stands between its
\* assignments, rd.clock the time in calls.  rd.got is the latest copy the
\* reader took of the fields, without a lock.  rd.committed is not program
\* state: the field values at the ends of the calls so far.
\* ContainerManager.Start after its tests and the runtime call: the two
\* assignments, in the order of the code, then saveState and the unlock.
StartSteps ==
  /\ \/ /\ rd.pc = "idle"
        /\ rd.ctr.State \in {StateCreated, StateStopped}
        /\ rd.clock < MaxClock
        /\ rd' = [rd EXCEPT !.pc = "Start: State", !.clock = @ + 1]
     \/ /\ rd.pc = "Start: State"
        /\ rd' = [rd EXCEPT !.ctr.State = StateRunning,
                            !.pc = "Start: StartedAt"]
     \/ /\ rd.pc = "Start: StartedAt"
        /\ rd' = [rd EXCEPT
                    !.ctr.StartedAt = rd.clock, !.pc = "idle",
                    !.committed =
                      @ \cup {[rd.ctr EXCEPT !.StartedAt = rd.clock]}]
  /\ UNCHANGED << mgrVars, faults, syncVars, disc, lb, reqs, graph, wait,
                  sm, sdir, nm, bo, ticked, srv, sf >>

\* ContainerManager.Stop likewise.
StopSteps ==
  /\ \/ /\ rd.pc = "idle"
        /\ rd.ctr.State = StateRunning
        /\ rd.clock < MaxClock
        /\ rd' = [rd EXCEPT !.pc = "Stop: State", !.clock = @ + 1]
     \/ /\ rd.pc = "Stop: State"
        /\ rd' = [rd EXCEPT !.ctr.State = StateStopped,
                            !.pc = "Stop: ExitedAt"]
     \/ /\ rd.pc = "Stop: ExitedAt"
        /\ rd' = [rd EXCEPT
                    !.ctr.ExitedAt = rd.clock, !.pc = "idle",
                    !.committed =
                      @ \cup {[rd.ctr EXCEPT !.ExitedAt = rd.clock]}]
  /\ UNCHANGED << mgrVars, faults, syncVars, disc, lb, reqs, graph, wait,
                  sm, sdir, nm, bo, ticked, srv, sf >>

\* The caller of Get or List reads the fields through the pointer it was
\* given; m.mu is no longer held.
ReadFields ==
  /\ rd' = [rd EXCEPT !.read = TRUE, !.got = rd.ctr]
  /\ UNCHANGED << mgrVars, faults, syncVars, disc, lb, reqs, graph, wait,
                  sm, sdir, nm, bo, ticked, srv, sf >>

\* --------------------------------------------------------- specification
ManagerInit ==
  /\ heap = << >>
  /\ containers = [id \in Ids |-> 0]
  /\ disk = NoFile
  /\ rt = [id \in Ids |-> NewRt]
  /\ now = 0
  /\ rm = RmIdle
  /\ health = [id \in Ids |-> NoHealthEntry]
  /\ probes = [p \in Ptrs |-> 0]
  /\ hm = [id \in Ids |-> HmIdle]
  /\ last = [op |-> "none", id |-> 0, by |-> "none", err |-> "nil",
             rtCalled |-> FALSE, rtErr |-> FALSE, fault |-> "none",
             save |-> "none", n |-> 0]
  /\ writeFailed = FALSE
  /\ monStarts = << >>
  /\ faults = 0

\* No sync connection, no registered volume, no join.
SyncIdle ==
  /\ ep = [n \in Nodes |-> EpIdle]
  /\ inbox = [n \in Nodes |-> << >>]
  /\ volumePaths = {}
  /\ pass = 0
  /\ join = JoinIdle

\* No query, no proxy, an empty graph, no wait, no secret manager and an
\* empty data directory.
SvcIdle ==
  /\ disc = [pc |-> "idle", entries |-> << >>, containers |-> << >>]
  /\ lb = [type |-> "none", exists |-> FALSE, backends |-> << >>,
           pool |-> << >>, current |-> 0, n |-> 0, log |-> << >>]
  /\ reqs = [r \in 1..MaxReqs |-> ReqIdle]
  /\ graph = GraphIdle
  /\ wait = WaitIdle
  /\ sm = [up |-> FALSE, key |-> 0, secrets |-> [n \in {} |-> n],
           err |-> "nil", expect |-> [n \in {} |-> n]]
  /\ sdir = [key |-> 0, keys |-> 0, valid |-> TRUE,
             secrets |-> [n \in {} |-> n]]
  /\ nm = [networks |-> [n \in {"budgie0"} |->
                           [Subnet |-> [base |-> 0, size |-> 8],
                            Gateway |-> 1, Containers |-> << >>]],
           file |-> "current",
           ips |-> {}, op |-> "none", name |-> "", err |-> "nil"]
  /\ bo = [called |-> FALSE, restartCount |-> 0, backoff |-> << >>]
  /\ ticked = 0
  /\ srv = [volumePaths |-> [c \in {} |-> c],
            conn |-> [id |-> "", registered |-> "", volumePath |-> ""]]
  /\ sf = [file |-> [snapshot |-> 0, chunks |-> MaxChunks],
           writing |-> FALSE, loaded |-> FALSE,
           data |-> [snapshot |-> 0, chunks |-> 0]]
  /\ rd = [ctr |-> [State |-> StateCreated, StartedAt |-> ZeroTime,
                     ExitedAt |-> ZeroTime],
           pc |-> "idle", clock |-> 0,
           committed |-> {[State |-> StateCreated, StartedAt |-> ZeroTime,
                           ExitedAt |-> ZeroTime]},
           read |-> FALSE,
           got |-> [State |-> StateCreated, StartedAt |-> ZeroTime,
                    ExitedAt |-> ZeroTime]]

Init ==
  /\ ManagerInit
  /\ SyncIdle
  /\ SvcIdle
  /\ tree = [n \in Nodes |-> EmptyTree]

Next ==
  \/ UserCreate
  \/ UserStart
  \/ UserStop
  \/ UserRemove
  \/ RmTick
  \/ RmScan
  \/ RmIncr
  \/ RmStart
  \/ HmCheck
  \/ ProbeSkip
  \/ ProbeDone
  \/ HmMarshal
  \/ HmWrite
  \/ TaskExit
  \/ ExitWatcher
  \/ Tick

Spec == Init /\ [][Next]_vars

\* ------------------------------------------- specification: health checks
\* One container with an HTTP health check, probed every second for
\* MaxProbeTime seconds: the manager's Create and Start without faults, then
\* the health monitor alone.
HealthChecks ==
  { [Path |-> "/health", Interval |-> 1, Retries |-> r] : r \in 0..MaxRetries }

ProbedCreate ==
  /\ \E id \in Ids, hc \in HealthChecks :
       Create(id, NilPolicy, hc, 8080, "none", "ok")
  /\ UNCHANGED << syncVars, svcVars >>

ProbedStart ==
  /\ \E id \in Ids : StartCall(id, "user", "none", "ok")
  /\ UNCHANGED << rm, syncVars, svcVars >>

ProbeTick ==
  /\ now < MaxProbeTime
  /\ now' = now + 1
  /\ UNCHANGED << heap, containers, disk, rt, rm, health, probes, hm, last,
                  writeFailed, monStarts, faults,
                  syncVars, svcVars >>

HealthNext ==
  \/ ProbedCreate
  \/ ProbedStart
  \/ HmCheck
  \/ ProbeDone
  \/ HmMarshal
  \/ HmWrite
  \/ ProbeTick

HealthSpec == Init /\ [][HealthNext]_vars

\* ---------------------------------------------- specification: volume sync
\* A source tree on the client, a target tree on the server, and up to
\* MaxPasses calls of SyncVolume.  The receiver's clock stands at 0, so that
\* the files carry modification times at and after it.
SyncInit ==
  /\ ManagerInit
  /\ SyncIdle
  /\ SvcIdle
  /\ tree \in [Nodes -> Trees]

SyncNext ==
  \/ RegisterVolume
  \/ UnregisterVolume
  \/ SyncVolume
  \/ \E e \in Nodes :
       \/ SendSignatures(e)
       \/ ReceiveNeeded(e)
       \/ sendFile(e)
       \/ ReceiveCount(e)
       \/ ReceiveSignature(e)
       \/ SendNeeded(e)
       \/ receiveFile(e)

SyncSpec == SyncInit /\ [][SyncNext]_vars

\* ---------------------------------------------------- specification: chirp
\* One chirp join against a primary whose sync server may have a volume
\* registered.
ChirpNext ==
  \/ RegisterVolume
  \/ UnregisterVolume
  \/ JoinDiscover
  \/ JoinCreate
  \/ JoinDial
  \/ JoinSynced
  \/ JoinStart
  \/ JoinAnnounce
  \/ \E e \in Nodes : ReceiveCount(e)

ChirpSpec == Init /\ [][ChirpNext]_vars

\* ------------------------------------------------ specification: discovery
DiscoverySpec ==
  Init /\ [][DiscoverContainers \/ DiscoverEntry \/ DiscoverReturn]_vars

\* ---------------------------------------------------- specification: proxy
\* Requests, probes and pool changes in any order.
ProxySpec ==
  Init /\ [][\/ NewContainerProxy
             \/ AddBackend
             \/ RemoveBackend
             \/ \E r \in 1..MaxReqs :
                  Handler(r) \/ Director(r) \/ Complete(r)
             \/ \E b \in 1..MaxBackends, ok \in BOOLEAN :
                  checkBackend(b, ok)]_vars

\* ------------------------------------------- specification: start order
DependencySpec == Init /\ [][AddContainer \/ StartOrder]_vars

\* --------------------------------------- specification: dependency wait
\* One WaitForDependencies at a time while the user creates, starts, stops
\* and removes the containers; the ticker keeps ticking.
WaitSpec ==
  /\ Init
  /\ [][\/ UserCreate
        \/ UserStart
        \/ UserStop
        \/ UserRemove
        \/ WaitForDependencies
        \/ CtxCancel
        \/ WaitCtxDone
        \/ WaitPoll]_vars
  /\ WF_vars(WaitPoll)

\* ------------------------------------------------- specification: secrets
\* Calls of one SecretManager, and process restarts on the same directory.
SecretSpec ==
  Init /\ [][\/ NewSecretManager
             \/ CreateSecret
             \/ UpdateSecret
             \/ RemoveSecret]_vars

\* ------------------------------------------------- specification: network
\* Calls of one NetworkManager constructed on an empty data directory.
NetworkSpec ==
  Init /\ [][\/ CreateNetwork
             \/ RemoveNetwork
             \/ ConnectContainer
             \/ DisconnectContainer]_vars

\* ------------------------------------------------- specification: backoff
\* restartContainer calls calculateBackoff with the container's restart
\* count, which the monitor increments without a limit.
BackoffSpec ==
  Init /\ [][/\ \E restartCount \in 0..MaxCount :
                  bo' = [called |-> TRUE, restartCount |-> restartCount,
                         backoff |-> calculateBackoff64(restartCount)]
             /\ UNCHANGED << mgrVars, faults, syncVars, disc, lb, reqs,
                             graph, wait, sm, sdir, nm, extVars >>]_vars

\* ------------------------------------------ specification: monitor ticks
\* The health monitor's loop as its ticker drives it: one
\* checkAllContainers per second, each probe answered at any later time, up
\* to MaxOverlap probe goroutines of a container at once.
checkAllContainers ==
  /\ ticked < now
  /\ ticked' = now
  /\ \E id \in Ids : HmLaunch(id, MaxOverlap)
  /\ UNCHANGED << heap, containers, disk, rt, now, rm, hm, last,
                  writeFailed, monStarts, faults, syncVars,
                  disc, lb, reqs, graph, wait, sm, sdir, nm, bo, srv, sf,
                  rd >>

TickSpec ==
  Init /\ [][\/ ProbedCreate
             \/ ProbedStart
             \/ ProbeTick
             \/ checkAllContainers
             \/ ProbeDone
             \/ HmMarshal
             \/ HmWrite]_vars

\* --------------------------------------------- specification: sync roots
\* Registrations of several containers' volumes and connections to the
\* server.
RootSpec ==
  Init /\ [][\/ RegisterVolumePath
             \/ UnregisterVolumePath
             \/ handleConnectionPath]_vars

\* ------------------------------------------ specification: shared file
\* One manager saving, managers of other processes loading.
LoadSpec ==
  Init /\ [][WriteFileOpen \/ WriteFileWrite \/ loadState]_vars

\* ---------------------------------------------- specification: readers
\* Starts and Stops of one container, and a reader of its fields.
ReadSpec ==
  Init /\ [][StartSteps \/ StopSteps \/ ReadFields]_vars

\* ------------------------------------------------------------------ claims
CallStep == last' # last
Rejections == {"exists", "notfound", "state"}

Edges ==
  { << StateCreating, StateCreated >>, << StateCreated, StateRunning >>,
    << StateRunning, StateStopped >>, << StateRunning, StateFailed >>,
    << StateStopped, StateRunning >>, << StateFailed, StateRunning >> }

\* C1: every change of a container's State follows an edge of
\* creating->created->running->(stopped|failed), stopped->running,
\* failed->running; created, stopped and removed containers never turn failed.
C1_TransitionsFollowDag ==
  [][\A p \in DOMAIN heap :
       heap'[p].State # heap[p].State
         => << heap[p].State, heap'[p].State >> \in Edges]_vars

\* The situations C2 lists, read off the state before the call.
Illegal(op, id) ==
  \/ op = "Create" /\ Known(id)
  \/ op \in {"Start", "Stop", "Remove"} /\ ~Known(id)
  \/ op = "Start" /\ Known(id)
       /\ Ctr(id).State \notin {StateCreated, StateStopped}
  \/ op = "Stop" /\ Known(id) /\ Ctr(id).State # StateRunning
  \/ op = "Remove" /\ Known(id) /\ Ctr(id).State = StateRunning

\* C2: a call that is illegal in the current state returns an error without
\* invoking the runtime and changes neither the map, nor a container, nor
\* the runtime, nor state.json.
C2_IllegalCallsChangeNothing ==
  [][(CallStep /\ Illegal(last'.op, last'.id))
       => /\ last'.err \in Rejections
          /\ ~last'.rtCalled
          /\ heap' = heap /\ containers' = containers
          /\ rt' = rt /\ disk' = disk]_vars

\* A second Stop after a successful one was rejected.
C2_Witness ==
  /\ last.op = "Stop" /\ last.err = "state"
  /\ Known(last.id) /\ Ctr(last.id).State = StateStopped

\* C3: when the runtime call of Create, Start, Stop or Remove returns an
\* error, the call returns an error and the map, every container and
\* state.json are as before the call.
C3_RuntimeErrorRollsBack ==
  [][(CallStep /\ last'.rtErr)
       => /\ last'.err # "nil"
          /\ heap' = heap /\ containers' = containers /\ disk' = disk]_vars

\* A Stop whose runtime call failed left the container running.
C3_Witness ==
  /\ last.op = "Stop" /\ last.rtErr /\ last.err = "runtime"
  /\ Known(last.id) /\ Ctr(last.id).State = StateRunning

\* C4: once the exit watcher has received the exit status of a task that
\* ended by itself, the container is stopped (exit code 0) or failed.
C4_ExitWatcherMovesState ==
  \A id \in Ids :
    (/\ Known(id)
     /\ rt[id].tasks # NoTask
     /\ Head(rt[id].tasks).own
     /\ Head(rt[id].tasks).watcher = "logged")
      => Ctr(id).State = IF Head(rt[id].tasks).code = 0 THEN StateStopped
                         ELSE StateFailed

\* The step in which restartContainer's call of manager.Start returns.
RmStartStep == rm.pc = "start" /\ rm'.pc = "scan"

\* C5: the restart monitor's Start of a stopped or failed container with
\* policy always brings it to running when the runtime call succeeds.
C5_AlwaysIsRestarted ==
  [][(/\ RmStartStep
      /\ containers[heap[rm.cur].ID] = rm.cur
      /\ heap[rm.cur].RestartPolicy.Name = "always"
      /\ heap[rm.cur].State \in {StateStopped, StateFailed}
      /\ ~last'.rtErr)
       => heap'[rm.cur].State = StateRunning]_vars

\* No monitor is inside restartContainer or handleUnhealthy.
AtBoundary ==
  /\ rm.pc \in {"idle", "scan"}
  /\ \A id \in Ids : hm[id].pc = "idle"

\* C6: at the start and the end of every call, state.json holds the
\* containers of the in-memory map with their fields (no write having failed).
C6_DiskEqualsMemory ==
  (AtBoundary /\ ~writeFailed) => disk = [valid |-> TRUE, list |-> SnapshotList]

\* The transition a successful call makes.
Kept(h, c, op, id) ==
  CASE op = "Create" -> c[id] # 0 /\ h[c[id]].State = StateCreated
    [] op = "Start" -> c[id] # 0 /\ h[c[id]].State = StateRunning
    [] op = "Stop" -> c[id] # 0 /\ h[c[id]].State = StateStopped
    [] op = "Remove" -> c[id] = 0
    [] OTHER -> FALSE

\* C7: when the write of state.json fails after the runtime action
\* succeeded, the call returns success and its transition is kept.
C7_SaveFailureKeepsTransition ==
  [][(CallStep /\ last'.save \in {"unchanged", "partial"})
       => /\ last'.err = "nil"
          /\ Kept(heap', containers', last'.op, last'.id)]_vars

\* A Stop returned success although its write failed; the file still says
\* running.
C7_Witness ==
  /\ last.op = "Stop" /\ last.save = "unchanged" /\ last.err = "nil"
  /\ Ctr(last.id).State = StateStopped
  /\ \E c \in disk.list : c.State = StateRunning

C9_OnFailureRestartsNTimes ==
  \A id \in Ids :
    (/\ Known(id)
     /\ Ctr(id).RestartPolicy.Name = "on-failure"
     /\ Ctr(id).RestartPolicy.MaximumRetryCount > 0
     /\ Ctr(id).State = StateFailed
     /\ rt[id].tasks # NoTask
     /\ Head(rt[id].tasks).own /\ Head(rt[id].tasks).code # 0
     /\ faults = 0
     /\ rm.cur # containers[id])
      => /\ Ctr(id).RestartCount = monStarts[containers[id]]
         /\ Ctr(id).RestartCount <= Ctr(id).RestartPolicy.MaximumRetryCount

\* C10: the restart monitor never restarts an unless-stopped container that
\* is stopped (StateStopped is written by ContainerManager.Stop alone).
C10_UserStoppedStaysStopped ==
  [][~(/\ RmStartStep
       /\ heap[rm.cur].RestartPolicy.Name = "unless-stopped"
       /\ heap[rm.cur].State = StateStopped
       /\ heap'[rm.cur].State = StateRunning)]_vars

\* The step in which the restart monitor's manager.Start starts a container.
RmRestarts == RmStartStep /\ last' # last /\ last'.err = "nil"

\* The container restartContainer's Start acts on (looked up by ID), and the
\* RestartCount it had before restartContainer's increment.
Restarted == containers[heap[rm.cur].ID]
CountBefore ==
  IF Restarted = rm.cur THEN heap[rm.cur].RestartCount - 1
  ELSE heap[Restarted].RestartCount

\* C11: whenever the restart monitor restarts a container, at least
\* min(1 s * 2^RestartCount, 5 min) has passed since the container's
\* ExitedAt, RestartCount taken before the increment.
C11_RestartAfterBackoff ==
  [][RmRestarts
       => ~SinceLess(heap[Restarted].ExitedAt, calculateBackoff(CountBefore))]_vars

\* C12: the restart monitor's manager.Start reaches the runtime only for a
\* container that is in the map and in the runtime and is not running,
\* whatever user calls came between the monitor's List and its Start.
C12_MonitorStartsOnlyStoppedLive ==
  [][(RmStartStep /\ last' # last /\ last'.rtCalled)
       => /\ Known(last'.id)
          /\ rt[last'.id].exists
          /\ Ctr(last'.id).State # StateRunning]_vars

\* The monitor's Start was rejected: a user Start had come first and the
\* container was running already.
C12_Witness ==
  /\ last.op = "Start" /\ last.by = "monitor" /\ last.err = "state"
  /\ ~last.rtCalled
  /\ Known(last.id) /\ Ctr(last.id).State = StateRunning

\* C13: after every successful Start by the user the container's
\* RestartCount is 0, and RestartCount changes only by that reset or by the
\* restart monitor's increment by one.
C13_UserStartResetsCount ==
  [][/\ (last' # last /\ last'.op = "Start" /\ last'.by = "user"
          /\ last'.err = "nil")
         => heap'[containers[last'.id]].RestartCount = 0
     /\ \A p \in DOMAIN heap :
          heap'[p].RestartCount # heap[p].RestartCount
            => \/ /\ heap'[p].RestartCount = 0
                  /\ last' # last /\ last'.op = "Start" /\ last'.by = "user"
               \/ /\ heap'[p].RestartCount = heap[p].RestartCount + 1
                  /\ rm.pc = "incr" /\ rm.cur = p]_vars

\* The step in which recordHealthCheck records the result of a probe of the
\* running container at p.
Recorded(p) ==
  /\ probes'[p] < probes[p]
  /\ heap[p].HostPort > 0
  /\ heap[p].State = StateRunning

\* C14: a 2xx result sets the failing streak to 0 and the status to healthy;
\* any other result adds one to the streak, and the status becomes
\* unhealthy at exactly the result that makes the streak equal to retries
\* (3 when configured as 0).
C14_UnhealthyAtRetries ==
  [][\A p \in DOMAIN heap :
       Recorded(p) =>
         LET id == heap[p].ID
             h == health[id]
             g == health'[id]
             R == IF heap[p].Health.Retries = 0 THEN 3
                  ELSE heap[p].Health.Retries
         IN IF g.Log[Len(g.Log)].ExitCode = 0
            THEN g.FailingStreak = 0 /\ g.Status = HealthStatusHealthy
            ELSE /\ g.FailingStreak = h.FailingStreak + 1
                 /\ (h.Status # HealthStatusUnhealthy
                       /\ g.Status = HealthStatusUnhealthy)
                      <=> g.FailingStreak = R
                 /\ g.Status # h.Status => g.Status = HealthStatusUnhealthy]_vars

\* With retries configured as 0, a failure, a 2xx and three more failures
\* have made the container unhealthy at a streak of 3.
C14_Witness ==
  \E id \in Ids :
    /\ Known(id) /\ Ctr(id).Health.Retries = 0
    /\ health[id].Status = HealthStatusUnhealthy
    /\ health[id].FailingStreak = 3
    /\ \E i \in 1..(Len(health[id].Log) - 1) :
         health[id].Log[i].ExitCode = 1 /\ health[id].Log[i + 1].ExitCode = 0

\* C15: on every connection the sync server has accepted, the server runs
\* the sending side of the pass (signature count and signatures first, then
\* the wait for the stale list, then the files) and the connecting peer the
\* receiving side.
C15_ServerIsSender ==
  /\ ep["server"].role \in {"none", "send"}
  /\ ep["client"].role \in {"none", "recv"}

\* One pass has run and both SendVolume and ReceiveVolume returned nil.
PassComplete == ep["client"].pc = "done" /\ ep["server"].pc = "done"

\* C16: after one complete pass from the source F to a target whose files
\* are a subset of F, the target holds exactly the files of F, each with the
\* bytes of the source's file (no file operation having failed).
C16_TargetEqualsSource ==
  (/\ pass = 1
   /\ PassComplete
   /\ faults = 0
   /\ \A p \in Paths : tree["server"][p].exists => tree["client"][p].exists)
    => \A p \in Paths :
         /\ tree["server"][p].exists = tree["client"][p].exists
         /\ tree["server"][p].data = tree["client"][p].data

\* C17: in a second pass that follows a completed pass, the source being
\* the same, the stale list is empty and no file is written on the target
\* (no file operation having failed).
C17_SecondPassWritesNothing ==
  (/\ pass = 2
   /\ faults = 0
   /\ ep["client"].prev = "done"
   /\ ep["server"].prev = "done")
    => /\ ep["server"].needed = << >>
       /\ ep["server"].wrote = {}

\* The step in which the receiver e decides on a signature, the signature,
\* the local file, and whether the path was put on the stale list.
Decides(e) == ep[e].role = "recv" /\ ep'[e].count = ep[e].count - 1
Remote(e) == Head(inbox[e]).sig
Local(e) == tree[e][Remote(e).Path]
Requested(e) == ep'[e].needed = Append(ep[e].needed, Remote(e).Path)
Stale(e) ==
  \/ ~Local(e).exists
  \/ Len(Local(e).data) # Remote(e).Size
  \/ Local(e).mtime < Remote(e).ModTime

\* C18: the receiver puts a path on the stale list exactly when the local
\* file does not exist, or its size differs from the signature's, or its
\* modification time is strictly older; never otherwise, whatever the
\* content or the checksum.
C18_StaleExactly ==
  [][\A e \in Nodes : Decides(e) => (Requested(e) <=> Stale(e))]_vars

\* C18 as amended: ... or os.Stat on the local file fails.
C18_StaleOrStatError ==
  [][\A e \in Nodes :
       Decides(e) => (Requested(e) <=> (Stale(e) \/ faults' > faults))]_vars

\* The receiver has sent an empty stale list although a local file differs
\* in content from the source's file of the same size, the local one being
\* newer.
C18_Witness ==
  /\ ep["server"].role = "recv" /\ ep["server"].pc = "files"
  /\ ep["server"].needed = << >>
  /\ faults = 0
  /\ \E p \in Paths :
       /\ tree["server"][p].exists /\ tree["client"][p].exists
       /\ Len(tree["server"][p].data) = Len(tree["client"][p].data)
       /\ tree["server"][p].data # tree["client"][p].data
       /\ tree["server"][p].mtime > tree["client"][p].mtime

\* C19: a join with --sync whose Create succeeded is never left waiting in
\* the volume sync: it does not happen that the join and the server both
\* wait to read from a connection on which nothing is in flight.
C19_SyncNeverBlocksJoin ==
  ~(/\ join.pc = "sync"
    /\ \A e \in Nodes :
         ep[e].role = "recv" /\ ep[e].pc = "count" /\ ~CanRead(e))

\* The steps of a join in their order, and the same without volume sync.
JoinOrder == << "discover", "create", "sync", "start", "announce" >>
JoinOrderNoSync == << "discover", "create", "start", "announce" >>
IsPrefixOf(a, b) == Len(a) <= Len(b) /\ a = SubSeq(b, 1, Len(a))
Performed(step) == \E i \in 1..Len(join.steps) : join.steps[i] = step
Matches(id, arg) == \E k \in 0..Len(id) : SubSeq(id, 1, k) = arg

\* C20: a join performs discovery, Create, the optional sync, Start and
\* announce in this order, each after the one before has completed; with
\* --dry-run, without a discovered record whose id begins with the given id,
\* or after a failed Create, nothing follows.
C20_JoinOrder ==
  /\ IF join.syncVolumes THEN IsPrefixOf(join.steps, JoinOrder)
     ELSE IsPrefixOf(join.steps, JoinOrderNoSync)
  /\ join.dryRun => Len(join.steps) <= 1
  /\ (\A i \in 1..Len(join.list) : ~Matches(join.list[i].ID, join.arg))
       => Len(join.steps) <= 1
  /\ (Performed("sync") \/ Performed("start") \/ Performed("announce"))
       => \E id \in Ids : Known(id)
  /\ Performed("announce")
       => \E id \in Ids : Known(id) /\ Ctr(id).State = StateRunning

\* A join with --sync ran to its end through all five steps.
C20_Witness ==
  /\ join.pc = "done" /\ join.syncVolumes
  /\ join.steps = JoinOrder

\* ------------------------------------------------------- claims: discovery
\* C21: the list a discovery query returns holds at most one record per
\* container id, and each of its records stems from an entry that carries
\* the container_id TXT field.
C21_OneRecordPerId ==
  disc.pc = "done" =>
    /\ \A i, j \in DOMAIN disc.containers :
         disc.containers[i].ID = disc.containers[j].ID => i = j
    /\ \A i \in DOMAIN disc.containers :
         \E k \in DOMAIN disc.entries :
           \E f \in DOMAIN disc.entries[k].InfoFields :
             disc.entries[k].InfoFields[f]
               = << "container_id", "=" >> \o disc.containers[i].ID

\* ----------------------------------------------------------- claims: proxy
Active(l) == {b \in DOMAIN l.backends :
                l.backends[b].Active /\ \E i \in DOMAIN l.pool : l.pool[i] = b}

\* Request r is forwarded in this step.
Forwards(r) == reqs[r].pc = "director" /\ reqs'[r].pc = "inflight"

\* C22: round-robin over a fixed set of N active backends (of N different
\* URLs) forwards any N consecutive requests to N distinct backends.
C22_RoundRobinCoversAll ==
  (/\ lb.type = "round-robin"
   /\ Active(lb) # {}
   /\ \A b, c \in Active(lb) : lb.backends[b].URL = lb.backends[c].URL => b = c)
  =>
    LET N == Cardinality(Active(lb))
    IN  \A i \in 1..(Len(lb.log) - N + 1) :
          Cardinality({lb.log[k] : k \in i..(i + N - 1)}) = N

\* C23: least-connections forwards each request to the active backend with
\* the fewest live connections, the request itself not counted, the first
\* of the pool among ties.
C23_LeastConnForwardsToLeast ==
  [][\A r \in 1..MaxReqs :
       (Forwards(r) /\ lb.type = "least-connections") =>
         reqs'[r].target =
           leastConnSelect([lb EXCEPT
                              !.backends[reqs[r].counted].Conn = @ - 1])]_vars

C25_ConnEqualsInFlight ==
  \A b \in DOMAIN lb.backends :
    lb.backends[b].Conn =
      Cardinality({r \in 1..MaxReqs :
                     \/ reqs[r].pc = "director" /\ reqs[r].counted = b
                     \/ reqs[r].pc = "inflight" /\ reqs[r].target = b})

\* C26: a request is answered 503 only when no backend is active, and is
\* otherwise forwarded to an active backend of the pool.
C26_ForwardedToActiveOr503 ==
  [][\A r \in 1..MaxReqs :
       /\ Forwards(r) => reqs'[r].target \in Active(lb)
       /\ (reqs[r].pc = "idle" /\ reqs'[r].resp = "503"
             /\ reqs'[r] # reqs[r]) => Active(lb) = {}
       /\ reqs'[r].resp \in {"none", "503", "proxied"}]_vars

\* ------------------------------------------------ claims: dependency order
\* The depends_on edges of the graph: << a, b >> when a lists b.
DependsOn(g) ==
  UNION {{<< a, g.nodes[a][i] >> : i \in DOMAIN g.nodes[a]} :
           a \in g.containers}

\* The pairs joined by a path of at most k + 1 edges of E.
RECURSIVE Reach(_, _)
Reach(E, k) ==
  IF k = 0 THEN E
  ELSE LET R == Reach(E, k - 1)
       IN  R \cup {<< pq[1][1], pq[2][2] >> :
                     pq \in {x \in R \X E : x[1][2] = x[2][1]}}

Cyclic(g) ==
  \E n \in g.containers : << n, n >> \in Reach(DependsOn(g), Cardinality(Names))

Dangling(g) == \E e \in DependsOn(g) : e[2] \notin g.containers

\* C27: for an acyclic graph whose references all name containers of the
\* graph, GetStartOrder returns no error and an order that holds every
\* container exactly once, each after all the containers it depends on.
C27_OrderRespectsDependencies ==
  (graph.called /\ ~Cyclic(graph) /\ ~Dangling(graph)) =>
    /\ graph.err = "nil"
    /\ Len(graph.order) = Cardinality(graph.containers)
    /\ {graph.order[i] : i \in DOMAIN graph.order} = graph.containers
    /\ \A e \in DependsOn(graph) :
         \E i, j \in DOMAIN graph.order :
           graph.order[i] = e[2] /\ graph.order[j] = e[1] /\ i < j

\* An order was returned for three containers with a chain a -> b -> c.
C27_Witness ==
  /\ graph.called /\ ~Cyclic(graph) /\ ~Dangling(graph)
  /\ Len(graph.order) = 3
  /\ \E e, f \in DependsOn(graph) : e[2] = f[1]

\* C28: for a graph with a dependency cycle (a self-dependency included) or
\* a reference to a name not in the graph, GetStartOrder returns an error
\* and a nil order.
C28_CycleOrUnknownIsError ==
  (graph.called /\ (Cyclic(graph) \/ Dangling(graph))) =>
    graph.err # "nil" /\ graph.order = << >>

\* GetStartOrder reported a cycle through two of three containers.
C28_Witness ==
  /\ graph.called
  /\ graph.err = "circular"
  /\ \E e, f \in DependsOn(graph) :
       e[1] # e[2] /\ e[2] = f[1] /\ f[2] = e[1]
  /\ ~Dangling(graph)
  /\ Cardinality(graph.containers) = 3

\* ------------------------------------------------- claims: dependency wait
AllRunning ==
  \A i \in DOMAIN wait.deps :
    /\ wait.deps[i] # 0
    /\ Known(wait.deps[i])
    /\ Ctr(wait.deps[i]).State = StateRunning

Returns == wait.pc = "waiting" /\ wait'.pc = "returned"

C30_GetReturnsLatestStored ==
  sm.up =>
    \A name \in SecretNames :
      GetSecret(sm, name) =
        IF name \in DOMAIN sm.expect
        THEN [val |-> sm.expect[name], err |-> "nil"]
        ELSE [val |-> "", err |-> "not found"]

\* --------------------------------------------------------- claims: network
\* C31: RemoveNetwork of the default network budgie0, or of a network with
\* at least one attached container, returns an error and leaves the
\* networks and their attachments as they were.
C31_RemoveRefused ==
  [][(/\ nm'.op = "RemoveNetwork"
      /\ \/ nm'.name = "budgie0"
         \/ /\ nm'.name \in DOMAIN nm.networks
            /\ Len(nm.networks[nm'.name].Containers) > 0)
     => /\ nm'.err # "nil"
        /\ nm'.networks = nm.networks]_vars

C31_Witness ==
  /\ nm.op = "RemoveNetwork" /\ nm.name = "n1" /\ nm.err = "in use"
  /\ "n1" \in DOMAIN nm.networks

\* C39: the addresses handed out to the containers attached to one network
\* at the same time are pairwise distinct, lie inside the network's subnet
\* and never equal its gateway.
C39_AddressesDistinctInsideNotGateway ==
  \A t \in nm.ips :
    /\ Contains(nm.networks[t[1]].Subnet, t[3])
    /\ t[3] # nm.networks[t[1]].Gateway
    /\ \A u \in nm.ips : (u[1] = t[1] /\ u[2] # t[2]) => u[3] # t[3]

\* ----------------------------------------------- claims: secrets, errors
\* C40: a CreateSecret, UpdateSecret or RemoveSecret call that returns an
\* error leaves the set of secrets and every value GetSecret returns as
\* they were before the call.
C40_ErrorLeavesSecretsUnchanged ==
  [][(sm.up /\ sm'.up /\ sm'.err # "nil")
     => /\ DOMAIN sm'.secrets = DOMAIN sm.secrets
        /\ \A name \in SecretNames :
             GetSecret(sm', name) = GetSecret(sm, name)]_vars

\* --------------------------------------------------------- claims: backoff
\* 2^n seconds is more than the maximal backoff.
PastMax(n) == \E k \in 0..n : k < 31 /\ 2 ^ k > MaxBackoff

\* min(1 s * 2^n, 5 min) in nanoseconds.
MinBackoff(n) ==
  IF PastMax(n) THEN maxBackoff64
  ELSE Mul64(Second64, << 2 ^ n % 256, 2 ^ n \div 256, 0, 0, 0, 0, 0, 0 >>)

\* C35: for every restart count >= 0, calculateBackoff returns
\* min(1 s * 2^count, 5 min): at least 1 s, at most 5 min, and not less than
\* for the count before, also when 2^count seconds leaves 64 bits.
C35_BackoffIsCappedPowerOfTwo ==
  bo.called =>
    /\ bo.backoff = MinBackoff(bo.restartCount)
    /\ ~Gt64(Second64, bo.backoff)
    /\ ~Gt64(bo.backoff, maxBackoff64)
    /\ bo.restartCount > 0 =>
         ~Gt64(calculateBackoff64(bo.restartCount - 1), bo.backoff)

\* --------------------------------------------- claims: manager and runtime
\* A task of the container is running in the runtime.
TaskRunning(id) ==
  \E i \in DOMAIN rt[id].tasks : rt[id].tasks[i].status = "running"

\* C36: the recorded state and the runtime agree in every state: a container
\* recorded as created, stopped or failed has no running task, one recorded
\* as running has a running task; failed health probes included.
C36_StateAgreesWithRuntime ==
  \A id \in Ids :
    Known(id) =>
      /\ Ctr(id).State \in {StateCreated, StateStopped, StateFailed}
           => ~TaskRunning(id)
      /\ Ctr(id).State = StateRunning => TaskRunning(id)

\* ------------------------------------------------ claims: snapshot locking
\* C32: every snapshot written to state.json is taken and written under the
\* manager's lock, the health monitor's write included: the list a write
\* puts into the file is the list of the map at that write, no other
\* thread having changed the map or a container in between.
C32_SnapshotWrittenUnderLock ==
  [][(disk' # disk /\ disk'.valid)
       => disk'.list = ListOf(heap', containers')]_vars

\* ------------------------------------------------- claims: probes in flight
\* C37: at most one health probe of a container is in flight at any time; a
\* tick never launches a probe while an earlier one is still pending.
C37_OneProbeInFlight == \A p \in DOMAIN heap : probes[p] <= 1

\* ------------------------------------------------------ claims: sync roots
\* C38: with several volumes registered, a connection that syncs container
\* X works under the root registered for X: the requested container id
\* determines the root.
C38_RootOfRequestedContainer ==
  (srv.conn.volumePath # "" /\ srv.conn.registered # "")
    => srv.conn.volumePath = srv.conn.registered

\* ------------------------------------------------------ claims: shared file
\* C33: a loadState that reads state.json while another manager saves it
\* gets the complete previous snapshot or the complete new one, never an
\* empty or partly written file.
C33_LoadSeesCompleteSnapshot == sf.loaded => sf.data.chunks = MaxChunks

\* --------------------------------------------------------- claims: readers
\* C34: a reader that got a container from Get or List while a Start or
\* Stop runs sees all its fields as before the call or all as after it,
\* never State = running with the StartedAt of before.
C34_ReaderSeesNoMix == rd.read => rd.got \in rd.committed
====
